---------------------------- MODULE Spec2Model ----------------------------
(* blip0-cli: the template engine (substituteVars), the config store      *)
(* (per-tool config files, the session registry file) and the session     *)
(* manager (startMonitor, stopMonitor, isSessionRunning) with the         *)
(* whale-alert / stop commands that drive them.                           *)
(*                                                                        *)
(* Strings that the code inspects character by character (templates,     *)
(* placeholder patterns, replacement values) are sequences of one-        *)
(* character strings; strings the code only compares are TLA+ strings.    *)
EXTENDS Integers, Sequences, FiniteSets, TLC

VARIABLES
    tpc,        \* template harness: "input" | "once" | "twice"
    tmpl,       \* the template text handed to substituteVars
    tvars,      \* the variable map, as Object.entries lists it
    out1,       \* substituteVars(tmpl, tvars)
    out2,       \* substituteVars(out1, tvars)
    sessionsFile,   \* ~/.blip0/sessions.json: [exists, content]
    configFiles,    \* ~/.blip0/configs/<tool>.json, per tool: [exists, content]
    baseDirs,       \* whether ~/.blip0/configs and ~/.blip0/runtime exist
    alive,          \* process ids the operating system reports as existing
    now,            \* the clock new Date() reads, in ticks
    hop,            \* API harness: the last call and its arguments
    ret,            \* API harness: what the last read call returned
    cfgHist,        \* per tool: whether a config was ever saved, and the last one
    binary,         \* whether ~/.blip0/bin/openzeppelin-monitor exists
    sessionDirs,    \* per session id: the runtime directory, and which of its
                    \* config documents have been written
    procCwd,        \* per process id: the working directory it was spawned in
    procStart,      \* per process id: the clock reading when it was last spawned
    timers,         \* per session id: how many delayed liveness checks are pending
    cli,            \* the command being run: position, options and locals
    race,           \* two invocations at once: per terminal, position and locals
    wiz             \* whaleAlertWizard on its own: the prompt it is at, the answers

tvarsAll == <<tpc, tmpl, tvars, out1, out2>>
storeVars == <<sessionsFile, configFiles, baseDirs, alive, now, hop, ret, cfgHist>>
sysVars == <<binary, sessionDirs, procCwd, procStart, timers, cli, race, wiz>>
harnessVars == <<hop, ret, cfgHist>>
allVars == <<tpc, tmpl, tvars, out1, out2,
             sessionsFile, configFiles, baseDirs, alive, now, hop, ret, cfgHist,
             binary, sessionDirs, procCwd, procStart, timers, cli, race, wiz>>

(**************************************************************************)
(* Template engine: substituteVars                                        *)
(**************************************************************************)

\* new RegExp(`\\{\\{${key}\\}\\}`, "g"): the literal text {{key}}.
Placeholder(key) == <<"{", "{">> \o key \o <<"}", "}">>

\* Whether the pattern text occurs in s at position i.
MatchesAt(s, pat, i) ==
    /\ i + Len(pat) - 1 <= Len(s)
    /\ SubSeq(s, i, i + Len(pat) - 1) = pat

\* String.prototype.replace with a string replacement expands the
\* replacement patterns $$, $&, $` and $' (the pattern has no capture
\* groups, so $1.. and $<name> stay as written).
RECURSIVE GetSubstitution(_, _, _, _, _)
GetSubstitution(repl, k, s, pos, mlen) ==
    IF k > Len(repl) THEN <<>>
    ELSE IF repl[k] = "$" /\ k < Len(repl) /\ repl[k + 1] \in {"$", "&", "`", "'"}
    THEN (CASE repl[k + 1] = "$" -> <<"$">>
            [] repl[k + 1] = "&" -> SubSeq(s, pos, pos + mlen - 1)
            [] repl[k + 1] = "`" -> SubSeq(s, 1, pos - 1)
            [] repl[k + 1] = "'" -> SubSeq(s, pos + mlen, Len(s)))
         \o GetSubstitution(repl, k + 2, s, pos, mlen)
    ELSE <<repl[k]>> \o GetSubstitution(repl, k + 1, s, pos, mlen)

\* result.replace(pattern, value) with a global pattern: every match of the
\* subject, left to right and not overlapping, is replaced.
RECURSIVE ReplaceFrom(_, _, _, _)
ReplaceFrom(s, pat, repl, i) ==
    IF i > Len(s) THEN <<>>
    ELSE IF MatchesAt(s, pat, i)
    THEN GetSubstitution(repl, 1, s, i, Len(pat))
         \o ReplaceFrom(s, pat, repl, i + Len(pat))
    ELSE <<s[i]>> \o ReplaceFrom(s, pat, repl, i + 1)

\* The same call with a pattern that lacks the "g" flag: the first match only.
RECURSIVE ReplaceFirstFrom(_, _, _, _)
ReplaceFirstFrom(s, pat, repl, i) ==
    IF i > Len(s) THEN <<>>
    ELSE IF MatchesAt(s, pat, i)
    THEN GetSubstitution(repl, 1, s, i, Len(pat))
         \o SubSeq(s, i + Len(pat), Len(s))
    ELSE <<s[i]>> \o ReplaceFirstFrom(s, pat, repl, i + 1)

StringReplaceFirst(s, pat, repl) == ReplaceFirstFrom(s, pat, repl, 1)

StringReplace(s, pat, repl) == ReplaceFrom(s, pat, repl, 1)

\* The loop of substituteVars over Object.entries(vars), from entry k on.
RECURSIVE SubstituteLoop(_, _, _)
SubstituteLoop(result, vars, k) ==
    IF k > Len(vars) THEN result
    ELSE SubstituteLoop(
            StringReplace(result, Placeholder(vars[k].key), vars[k].value),
            vars, k + 1)

substituteVars(template, vars) == SubstituteLoop(template, vars, 1)

(**************************************************************************)
(* Config store: data                                                     *)
(**************************************************************************)

\* const TOOL_NAME = "whale-alert"; a second name for the store's contract.
TOOL_NAME == "whale-alert"
ToolNames == {TOOL_NAME, "gas-alert"}

\* Session ids as generateSessionId draws them, and process ids.
SessionIds == {"k3x9q2ab", "p7m1z8cd"}
Pids == {4101, 4102}

\* join(RUNTIME_DIR, `session-${sessionId}`)
SessionDirOf(id) == <<"runtime", "session-", id>>

\* A Date, and the ISO string JSON.stringify writes for it (Date.toJSON).
DateValue(ms) == [type |-> "Date", ms |-> ms]
ISOString(ms) == [type |-> "string", iso |-> ms]

\* SessionInfo.status
Statuses == {"running", "stopped", "error"}

\* JSON.stringify of one SessionInfo, read back by JSON.parse: a Date comes
\* back as its ISO string; an optional field that is not set stays unset.
SessionToJSON(s) ==
    [s EXCEPT !.startedAt = IF @.type = "Date" THEN ISOString(@.ms) ELSE @]

\* JSON.stringify(sessions, null, 2), as JSON.parse reads it back.
SessionsToJSON(sessions) ==
    [i \in 1..Len(sessions) |-> SessionToJSON(sessions[i])]

\* The same with the last element lost.
SessionsToJSONDropLast(sessions) ==
    [i \in 1..(Len(sessions) - 1) |-> SessionToJSON(sessions[i])]

\* session.pid is set and truthy.
HasPid(s) == "pid" \in DOMAIN s /\ s.pid # 0

\* sessions.find((s) => s.id === sessionId): the index of the first match,
\* 0 when there is none.
FindSession(sessions, id) ==
    IF \E i \in 1..Len(sessions) : sessions[i].id = id
    THEN CHOOSE i \in 1..Len(sessions) :
            /\ sessions[i].id = id
            /\ \A j \in 1..(i - 1) : sessions[j].id # id
    ELSE 0

(**************************************************************************)
(* Config store: the session registry                                     *)
(**************************************************************************)

\* loadSessions(): [] when the file does not exist, else its parsed content.
loadSessions(file) == IF ~file.exists THEN <<>> ELSE file.content

\* saveSessions(sessions): the file after Bun.write.
saveSessions(sessions) == [exists |-> TRUE, content |-> SessionsToJSON(sessions)]

\* addSession with unshift in place of push.
addSessionFirst(file, session) == saveSessions(<<session>> \o loadSessions(file))

\* addSession(session): load, push, save.
addSession(file, session) == saveSessions(Append(loadSessions(file), session))

\* session.status = status; if (extra?.pid) ...; if (extra?.containerId) ...
ApplyStatus(s, status, extra) ==
    LET setPid == "pid" \in DOMAIN extra /\ extra.pid # 0
        setCid == "containerId" \in DOMAIN extra /\ extra.containerId # ""
        keys == DOMAIN s \cup (IF setPid THEN {"pid"} ELSE {})
                         \cup (IF setCid THEN {"containerId"} ELSE {})
    IN  [k \in keys |->
            CASE k = "status" -> status
              [] k = "pid" /\ setPid -> extra.pid
              [] k = "containerId" /\ setCid -> extra.containerId
              [] OTHER -> s[k]]

\* updateSessionStatus that drops the record of a session found in error.
updateSessionStatusPruning(file, id, status, extra) ==
    LET sessions == loadSessions(file)
        i == FindSession(sessions, id)
        Keep(s) == s.id # id
    IN  IF i = 0 THEN file
        ELSE IF status = "error" THEN saveSessions(SelectSeq(sessions, Keep))
        ELSE saveSessions([sessions EXCEPT ![i] = ApplyStatus(@, status, extra)])

\* updateSessionStatus that sets every record of the id and always saves.
updateSessionStatusEvery(file, id, status, extra) ==
    LET sessions == loadSessions(file)
    IN  saveSessions([j \in 1..Len(sessions) |->
                         IF sessions[j].id = id
                         THEN ApplyStatus(sessions[j], status, extra)
                         ELSE sessions[j]])

\* updateSessionStatus(sessionId, status, extra): the file afterwards; it is
\* written only when a session with that id is found.
updateSessionStatus(file, id, status, extra) ==
    LET sessions == loadSessions(file)
        i == FindSession(sessions, id)
    IN  IF i # 0
        THEN saveSessions([sessions EXCEPT ![i] = ApplyStatus(@, status, extra)])
        ELSE file

\* removeSession that drops the first match only.
removeSessionFirst(file, id) ==
    LET sessions == loadSessions(file)
        i == FindSession(sessions, id)
    IN  saveSessions(IF i = 0 THEN sessions
                     ELSE SubSeq(sessions, 1, i - 1)
                          \o SubSeq(sessions, i + 1, Len(sessions)))

\* removeSession(sessionId): load, filter, save.
removeSession(file, id) ==
    LET Keep(s) == s.id # id
    IN  saveSessions(SelectSeq(loadSessions(file), Keep))

\* getRunningSessions()
getRunningSessions(file) ==
    LET Running(s) == s.status = "running"
    IN  SelectSeq(loadSessions(file), Running)

(**************************************************************************)
(* Config store: per-tool user config                                     *)
(**************************************************************************)

Undefined == [t |-> "undefined"]
StringValue(v) == [t |-> "string", v |-> v]

\* The fields of UserConfig every config holds, and the optional one.
RequiredConfigKeys ==
    {"network", "contractAddress", "threshold", "notificationType", "webhookUrl"}

\* JSON.stringify(config, null, 2), as JSON.parse reads it back: a property
\* whose value is undefined is not written.
ConfigToJSON(c) ==
    IF "contractName" \in DOMAIN c /\ c.contractName = Undefined
    THEN [k \in DOMAIN c \ {"contractName"} |-> c[k]]
    ELSE c

\* saveUserConfig(tool, config): the config files afterwards.
saveUserConfig(files, tool, config) ==
    [files EXCEPT ![tool] = [exists |-> TRUE, content |-> ConfigToJSON(config)]]

\* loadUserConfig that reads the other tool's file.
loadUserConfigAnyTool(files, tool) ==
    IF \A t \in DOMAIN files : ~files[t].exists
    THEN [isNull |-> TRUE]
    ELSE [isNull |-> FALSE,
          value |-> files[CHOOSE t \in DOMAIN files :
                            /\ files[t].exists
                            /\ (files[tool].exists => t = tool)].content]

\* loadUserConfig(tool): null when the file does not exist.
loadUserConfig(files, tool) ==
    IF ~files[tool].exists
    THEN [isNull |-> TRUE]
    ELSE [isNull |-> FALSE, value |-> files[tool].content]

\* hasConfig(tool)
hasConfig(files, tool) == files[tool].exists

\* deleteUserConfig(tool): rm -f of the file.
deleteUserConfig(files, tool) ==
    [files EXCEPT ![tool] = [exists |-> FALSE, content |-> <<>>]]

(**************************************************************************)
(* Session manager: liveness query                                        *)
(**************************************************************************)

\* isSessionRunning that takes a failed query for a live process.
isSessionRunningLax(file, id, live, psWorks) ==
    LET sessions == loadSessions(file)
        i == FindSession(sessions, id)
    IN  IF i = 0 THEN FALSE
        ELSE IF HasPid(sessions[i]) THEN (~psWorks \/ sessions[i].pid \in live)
        ELSE FALSE

\* isSessionRunning(sessionId). `ps -p pid` exits 0 only for an existing
\* process; a non-zero exit, or ps failing to run, throws and is caught.
isSessionRunning(file, id, live, psWorks) ==
    LET sessions == loadSessions(file)
        i == FindSession(sessions, id)
    IN  IF i = 0 THEN FALSE
        ELSE IF HasPid(sessions[i])
             THEN (psWorks /\ sessions[i].pid \in live)
             ELSE FALSE

(**************************************************************************)
(* Commands: network presets, options and the command's locals            *)
(**************************************************************************)

\* NETWORK_PRESETS: the presets by slug (the fields the commands read).
NETWORK_PRESETS ==
    [slug \in {"stellar_mainnet", "stellar_testnet", "ethereum_mainnet"} |->
        [slug |-> slug,
         name |-> (CASE slug = "stellar_mainnet" -> "Stellar Mainnet"
                     [] slug = "stellar_testnet" -> "Stellar Testnet"
                     [] slug = "ethereum_mainnet" -> "Ethereum Mainnet"),
         type |-> IF slug = "ethereum_mainnet" THEN "EVM" ELSE "Stellar"]]

\* NETWORK_PRESETS is an object literal: a lookup by name also finds what
\* it inherits from Object.prototype.
ObjectPrototypeNames == {"constructor", "toString", "valueOf", "__proto__"}

\* NETWORK_PRESETS[slug]: a preset, an inherited (truthy) value that has no
\* slug, or undefined.
NetworkPresetLookup(slug) ==
    IF slug \in DOMAIN NETWORK_PRESETS
    THEN [kind |-> "preset", value |-> NETWORK_PRESETS[slug]]
    ELSE IF slug \in ObjectPrototypeNames
         THEN [kind |-> "inherited"]
         ELSE [kind |-> "undefined"]

\* null, and a value that is not null.
Null == [isNull |-> TRUE]
Some(v) == [isNull |-> FALSE, value |-> v]

\* The options commander hands to whaleAlertCommand; "" is an option that
\* was not given.
NoOptions == [reconfigure |-> FALSE, network |-> "", threshold |-> "", contract |-> ""]

\* No command running: position, command, options, the locals of
\* whaleAlertCommand / startMonitor / stopCommand / stopMonitor / listCommand,
\* whether the handler threw, and the exit code of the process.
CliIdle ==
    [pc |-> "idle", cmd |-> "none", opts |-> NoOptions, config |-> Null,
     id |-> "", session |-> Null, pid |-> 0, docs |-> <<>>, result |-> Null,
     reported |-> <<>>, trace |-> <<>>, killFailed |-> FALSE,
     rows |-> <<>>, threw |-> FALSE, exit |-> 0]

\* The two terminals commands are run from at the same time.
Procs == {"t1", "t2"}

\* An invocation that has not begun: position, command, session id, the
\* process it spawned, the registry file as its last loadSessions read it,
\* the status it is about to write, the record stopMonitor found, what
\* stopMonitor returned, and what it has shown.
ProcIdle ==
    [pc |-> "idle", cmd |-> "none", id |-> "", pid |-> 0,
     read |-> [exists |-> FALSE, content |-> <<>>], status |-> "running",
     session |-> Null, result |-> Null, reported |-> <<>>, trace |-> <<>>]

\* whaleAlertWizard before its first prompt: the prompt it is at, the
\* answers so far, and the follow-up branches it has entered.
WizIdle ==
    [pc |-> "network", network |-> "", contractAddress |-> <<>>, contractName |-> <<>>,
     threshold |-> <<>>, notificationType |-> "", token |-> <<>>, webhookUrl |-> <<>>,
     branches |-> <<>>]

\* A fresh home directory: no binary, no session directory, no process
\* spawned, no check pending, no command running.
SysIdle ==
    /\ binary = FALSE
    /\ sessionDirs = [i \in SessionIds |-> [exists |-> FALSE, docs |-> {}]]
    /\ procCwd = [p \in Pids |-> <<>>]
    /\ procStart = [p \in Pids |-> 0]
    /\ timers = [i \in SessionIds |-> 0]
    /\ cli = CliIdle
    /\ race = [p \in Procs |-> ProcIdle]
    /\ wiz = WizIdle

(**************************************************************************)
(* Inputs of the template harness                                         *)
(**************************************************************************)

\* Longest template, in tokens (a token is one character or one placeholder).
MaxTokens == 4

KeyA == <<"A">>
KeyB == <<"B">>

TemplateTokens ==
    {<<"{">>, <<"}">>, <<"A">>, Placeholder(KeyA), Placeholder(KeyB)}

RECURSIVE Flatten(_)
Flatten(toks) == IF toks = <<>> THEN <<>> ELSE Head(toks) \o Flatten(Tail(toks))

Templates ==
    UNION {{Flatten(ts) : ts \in [1..n -> TemplateTokens]} : n \in 0..MaxTokens}

\* Values a variable can take: empty, plain text, a lone brace, text that
\* closes a placeholder, the replacement patterns, another placeholder.
TemplateValues ==
    {<<>>, <<"x">>, <<"}">>, <<"A", "}">>, <<"{">>, <<"{", "A", "}", "}">>,
     <<"$", "$">>, <<"$", "&">>, Placeholder(KeyB)}

VarMaps ==
    {<<[key |-> KeyA, value |-> a], [key |-> KeyB, value |-> b]>> :
        a \in TemplateValues, b \in TemplateValues}

\* The files, processes and harness registers before anything has run.
StoreIdle ==
    /\ sessionsFile = [exists |-> FALSE, content |-> <<>>]
    /\ configFiles = [t \in ToolNames |-> [exists |-> FALSE, content |-> <<>>]]
    /\ baseDirs = FALSE
    /\ alive = {}
    /\ now = 0
    /\ hop = [name |-> "none"]
    /\ ret = [of |-> "none"]
    /\ cfgHist = [t \in ToolNames |-> [ever |-> FALSE, saved |-> FALSE, config |-> <<>>]]

SubstIdle ==
    /\ tpc = "input"
    /\ tmpl = <<>>
    /\ tvars = <<>>
    /\ out1 = <<>>
    /\ out2 = <<>>

SubstInit ==
    /\ StoreIdle
    /\ SysIdle
    /\ tpc = "input"
    /\ tmpl \in Templates
    /\ tvars \in VarMaps
    /\ out1 = <<>>
    /\ out2 = <<>>

\* loadTemplate's call: processed = substituteVars(content, vars).
Substitute ==
    /\ tpc = "input"
    /\ out1' = substituteVars(tmpl, tvars)
    /\ tpc' = "once"
    /\ UNCHANGED <<tmpl, tvars, out2>>
    /\ UNCHANGED storeVars
    /\ UNCHANGED sysVars

\* Rendering the already rendered text again with the same variables.
Resubstitute ==
    /\ tpc = "once"
    /\ out2' = substituteVars(out1, tvars)
    /\ tpc' = "twice"
    /\ UNCHANGED <<tmpl, tvars, out1>>
    /\ UNCHANGED storeVars
    /\ UNCHANGED sysVars

SubstNext == Substitute \/ Resubstitute

SpecSubst == SubstInit /\ [][SubstNext]_allVars

(**************************************************************************)
(* The store's API, called one call at a time                             *)
(**************************************************************************)

\* Most session records ever created (the highest clock reading).
MaxClock == 2

\* The SessionInfo values a caller can build at clock reading t.
NewSessions(t) ==
    {[id |-> i, tool |-> TOOL_NAME, configPath |-> SessionDirOf(i),
      pid |-> p, startedAt |-> DateValue(t), status |-> st] :
        i \in SessionIds, p \in Pids, st \in {"running", "stopped"}}
    \cup
    {[id |-> i, tool |-> TOOL_NAME, configPath |-> SessionDirOf(i),
      startedAt |-> DateValue(t), status |-> st] :
        i \in SessionIds, st \in {"running", "stopped"}}

RegistryInit ==
    /\ SubstIdle
    /\ SysIdle
    /\ sessionsFile = [exists |-> FALSE, content |-> <<>>]
    /\ configFiles = [t \in ToolNames |-> [exists |-> FALSE, content |-> <<>>]]
    /\ baseDirs = FALSE
    /\ alive \in {{}, {4101}}
    /\ now = 0
    /\ hop = [name |-> "none"]
    /\ ret = [of |-> "none"]
    /\ cfgHist = [t \in ToolNames |-> [ever |-> FALSE, saved |-> FALSE, config |-> <<>>]]

AddSessionCall ==
    \E s \in NewSessions(now) :
        /\ now < MaxClock
        /\ hop' = [name |-> "addSession", session |-> s,
                   before |-> loadSessions(sessionsFile)]
        /\ sessionsFile' = addSession(sessionsFile, s)
        /\ baseDirs' = TRUE
        /\ now' = now + 1
        /\ ret' = [of |-> "none"]
        /\ UNCHANGED <<configFiles, alive, cfgHist, tvarsAll, sysVars>>

UpdateSessionStatusCall ==
    \E id \in SessionIds, st \in Statuses, extra \in {<<>>, [pid |-> 4102]} :
        /\ (extra # <<>> => st = "running")
        /\ hop' = [name |-> "updateSessionStatus", id |-> id, status |-> st,
                   extra |-> extra, before |-> loadSessions(sessionsFile),
                   fileBefore |-> sessionsFile]
        /\ sessionsFile' = updateSessionStatus(sessionsFile, id, st, extra)
        /\ baseDirs' = (baseDirs \/ FindSession(loadSessions(sessionsFile), id) # 0)
        /\ ret' = [of |-> "none"]
        /\ UNCHANGED <<configFiles, alive, now, cfgHist, tvarsAll, sysVars>>

RemoveSessionCall ==
    \E id \in SessionIds :
        /\ hop' = [name |-> "removeSession", id |-> id,
                   before |-> loadSessions(sessionsFile)]
        /\ sessionsFile' = removeSession(sessionsFile, id)
        /\ baseDirs' = TRUE
        /\ ret' = [of |-> "none"]
        /\ UNCHANGED <<configFiles, alive, now, cfgHist, tvarsAll, sysVars>>

LoadSessionsCall ==
    /\ ret.of # "loadSessions"
    /\ ret' = [of |-> "loadSessions", value |-> loadSessions(sessionsFile)]
    /\ UNCHANGED <<sessionsFile, configFiles, baseDirs, alive, now, hop, cfgHist, tvarsAll, sysVars>>

IsSessionRunningCall ==
    \E id \in SessionIds, psWorks \in BOOLEAN :
        /\ hop' = [name |-> "isSessionRunning", id |-> id, psWorks |-> psWorks,
                   live |-> alive, before |-> loadSessions(sessionsFile)]
        /\ ret' = [of |-> "isSessionRunning",
                   value |-> isSessionRunning(sessionsFile, id, alive, psWorks)]
        /\ UNCHANGED <<sessionsFile, configFiles, baseDirs, alive, now, cfgHist, tvarsAll, sysVars>>

RegistryNext ==
    \/ AddSessionCall
    \/ UpdateSessionStatusCall
    \/ RemoveSessionCall
    \/ LoadSessionsCall
    \/ IsSessionRunningCall

SpecRegistry == RegistryInit /\ [][RegistryNext]_allVars

\* The UserConfig values the wizard can return.
UserConfigs ==
    {[network |-> n, contractAddress |-> "CCW67TSZ", contractName |-> cn,
      threshold |-> "1000000", notificationType |-> nt,
      webhookUrl |-> (CASE nt = "discord" -> "https://discord.com/api/webhooks/123/abc"
                        [] nt = "slack" -> "https://hooks.slack.com/services/T0/B0"
                        [] nt = "telegram" -> "{\"token\":\"42:tok\",\"chatId\":\"-100\"}")] :
        n \in {"stellar_mainnet", "stellar_testnet"},
        cn \in {Undefined, StringValue("USDC")},
        nt \in {"discord", "telegram", "slack"}}

ConfigInit ==
    /\ SubstIdle
    /\ StoreIdle
    /\ SysIdle

SaveUserConfigCall ==
    \E t \in ToolNames, c \in UserConfigs :
        /\ hop' = [name |-> "saveUserConfig", tool |-> t, config |-> c]
        /\ configFiles' = saveUserConfig(configFiles, t, c)
        /\ baseDirs' = TRUE
        /\ cfgHist' = [cfgHist EXCEPT ![t] = [ever |-> TRUE, saved |-> TRUE, config |-> c]]
        /\ ret' = [of |-> "none"]
        /\ UNCHANGED <<sessionsFile, alive, now, tvarsAll, sysVars>>

LoadUserConfigCall ==
    \E t \in ToolNames :
        /\ ret' = [of |-> "loadUserConfig", tool |-> t,
                   value |-> loadUserConfig(configFiles, t)]
        /\ UNCHANGED <<sessionsFile, configFiles, baseDirs, alive, now, hop, cfgHist, tvarsAll, sysVars>>

DeleteUserConfigCall ==
    \E t \in ToolNames :
        /\ hop' = [name |-> "deleteUserConfig", tool |-> t]
        /\ configFiles' = deleteUserConfig(configFiles, t)
        /\ cfgHist' = [cfgHist EXCEPT ![t].saved = FALSE, ![t].config = <<>>]
        /\ ret' = [of |-> "none"]
        /\ UNCHANGED <<sessionsFile, baseDirs, alive, now, tvarsAll, sysVars>>

ConfigNext ==
    \/ SaveUserConfigCall
    \/ LoadUserConfigCall
    \/ DeleteUserConfigCall

SpecConfig == ConfigInit /\ [][ConfigNext]_allVars

(**************************************************************************)
(* The CLI: whale-alert and stop, one command at a time                   *)
(**************************************************************************)

\* The options a whale-alert run can be given: none, --reconfigure,
\* --network with a preset's slug, with a slug that names nothing, with a
\* name Object.prototype defines, and --threshold with --contract.
WhaleAlertOptions ==
    {NoOptions,
     [NoOptions EXCEPT !.reconfigure = TRUE],
     [NoOptions EXCEPT !.network = "ethereum_mainnet"],
     [NoOptions EXCEPT !.network = "solana_mainnet"],
     [NoOptions EXCEPT !.network = "constructor"],
     [NoOptions EXCEPT !.threshold = "5000", !.contract = "CDLZFC3S"]}

\* The UserConfig values whaleAlertWizard returns here: one per network,
\* without and with a contract name, for a webhook and for Telegram.
WizardConfigs ==
    {c \in UserConfigs :
        \/ /\ c.network = "stellar_mainnet"
           /\ c.contractName = Undefined
           /\ c.notificationType = "discord"
        \/ /\ c.network = "stellar_testnet"
           /\ c.contractName # Undefined
           /\ c.notificationType = "telegram"}

\* if (options.network) config.network = options.network; and so on.
ApplyOverrides(config, opts) ==
    [config EXCEPT
        !.network = IF opts.network # "" THEN opts.network ELSE @,
        !.threshold = IF opts.threshold # "" THEN opts.threshold ELSE @,
        !.contractAddress = IF opts.contract # "" THEN opts.contract ELSE @]

\* The three documents loadTemplate renders, by what they are rendered from.
RenderConfigs(config, preset) ==
    [network |-> preset.slug,
     monitor |-> [network |-> preset.slug, contract |-> config.contractAddress,
                  threshold |-> config.threshold],
     trigger |-> config.notificationType]

\* The SessionInfo startWithBinary builds, without its process id.
SessionInfoNoPid(sessionId, sessionDir, tool, pid, t) ==
    [id |-> sessionId, tool |-> tool, configPath |-> sessionDir,
     startedAt |-> DateValue(t), status |-> "running"]

\* The SessionInfo startWithBinary builds.
SessionInfoOf(sessionId, sessionDir, tool, pid, t) ==
    [id |-> sessionId, tool |-> tool, configPath |-> sessionDir, pid |-> pid,
     startedAt |-> DateValue(t), status |-> "running"]

\* The command moves on: new position, a message shown, an effect logged.
Advance(c, pc, messages, effects) ==
    [c EXCEPT !.pc = pc, !.reported = @ \o messages, !.trace = @ \o effects]

\* The process has exited with the code: what it showed and did stays on
\* record, its locals are gone.
ProcessExit(c, code) ==
    [c EXCEPT !.pc = "exited", !.exit = code, !.opts = NoOptions, !.config = Null,
              !.docs = <<>>, !.session = Null, !.pid = 0, !.result = Null,
              !.rows = <<>>, !.killFailed = FALSE]

\* A handleCancel that hands control back to the command's caller.
CancelledReturns(c) ==
    Advance(c, "done", <<"Operation cancelled.">>, <<>>)

\* handleCancel: the prompt was cancelled; p.cancel, then process.exit(0).
Cancelled(c) ==
    ProcessExit(Advance(c, c.pc, <<"Operation cancelled.">>, <<>>), 0)

\* An error leaves the command handler.
Threw(c) == [c EXCEPT !.pc = "done", !.threw = TRUE]

\* blip0 whale-alert [options]
InvokeWhaleAlert ==
    /\ cli.pc \in {"idle", "exited"}
    /\ now < MaxClock
    /\ \E o \in WhaleAlertOptions :
          cli' = [CliIdle EXCEPT !.pc = "loadConfig", !.cmd = "whale-alert", !.opts = o]
    /\ now' = now + 1
    /\ UNCHANGED <<sessionsFile, configFiles, baseDirs, alive, binary, sessionDirs,
                   procCwd, procStart, timers, harnessVars, tvarsAll, race, wiz>>

\* whaleAlertCommand that asks about the saved config whenever there is one.
WaLoadConfigAsks ==
    /\ cli.pc = "loadConfig"
    /\ LET config == loadUserConfig(configFiles, TOOL_NAME)
       IN  \E parses \in BOOLEAN :
             cli' = IF ~config.isNull /\ ~parses
                    THEN Threw(cli)
                    ELSE [cli EXCEPT
                            !.config = config,
                            !.pc = IF ~config.isNull THEN "confirmSaved" ELSE "wizard"]
    /\ UNCHANGED <<sessionsFile, configFiles, baseDirs, alive, now, binary,
                   sessionDirs, procCwd, procStart, timers, harnessVars, tvarsAll, race, wiz>>

\* let config = await loadUserConfig(TOOL_NAME), and which prompt follows.
\* JSON.parse throws on a file that does not hold JSON; nothing catches it
\* in whaleAlertCommand.
WaLoadConfig ==
    /\ cli.pc = "loadConfig"
    /\ LET config == loadUserConfig(configFiles, TOOL_NAME)
       IN  \E parses \in BOOLEAN :
             cli' = IF ~config.isNull /\ ~parses
                    THEN Threw(cli)
                    ELSE [cli EXCEPT
                            !.config = config,
                            !.pc = IF ~config.isNull /\ ~cli.opts.reconfigure
                                   THEN "confirmSaved" ELSE "wizard"]
    /\ UNCHANGED <<sessionsFile, configFiles, baseDirs, alive, now, binary,
                   sessionDirs, procCwd, procStart, timers, harnessVars, tvarsAll, race, wiz>>

\* confirmUseSavedConfig: use it, run the wizard instead, or cancel.
WaConfirmSaved ==
    /\ cli.pc = "confirmSaved"
    /\ \E answer \in {"yes", "no", "cancel"} :
          cli' = CASE answer = "yes" -> [cli EXCEPT !.pc = "overrides"]
                   [] answer = "no" -> [cli EXCEPT !.config = Null, !.pc = "wizard"]
                   [] answer = "cancel" -> Cancelled(cli)
    /\ UNCHANGED <<sessionsFile, configFiles, baseDirs, alive, now, binary,
                   sessionDirs, procCwd, procStart, timers, harnessVars, tvarsAll, race, wiz>>

\* config = await whaleAlertWizard(); await saveUserConfig(TOOL_NAME, config)
WaWizard ==
    /\ cli.pc = "wizard"
    /\ \/ \E c \in WizardConfigs :
            /\ configFiles' = saveUserConfig(configFiles, TOOL_NAME, c)
            /\ baseDirs' = TRUE
            /\ cli' = Advance([cli EXCEPT !.config = Some(c)], "overrides",
                              <<"Configuration saved!">>, <<"saveUserConfig">>)
       \/ /\ cli' = Cancelled(cli)
          /\ UNCHANGED <<configFiles, baseDirs>>
    /\ UNCHANGED <<sessionsFile, alive, now, binary, sessionDirs, procCwd, procStart, timers,
                   harnessVars, tvarsAll, race, wiz>>

\* whaleAlertCommand that saves the config once the overrides are applied.
WaOverridesSaved ==
    /\ cli.pc = "overrides"
    /\ LET c == [cli EXCEPT !.config = Some(ApplyOverrides(cli.config.value, cli.opts))]
       IN  /\ configFiles' = saveUserConfig(configFiles, TOOL_NAME, c.config.value)
           /\ \E answer \in {"yes", "no", "cancel"} :
                 cli' = CASE answer = "yes" -> [c EXCEPT !.pc = "generate"]
                          [] answer = "no" -> Advance(c, "done", <<"Monitor not started">>, <<>>)
                          [] answer = "cancel" -> Cancelled(c)
    /\ UNCHANGED <<sessionsFile, baseDirs, alive, now, binary,
                   sessionDirs, procCwd, procStart, timers, harnessVars, tvarsAll, race, wiz>>

\* whaleAlertCommand that warns on a declined start and carries on.
WaOverridesCarriesOn ==
    /\ cli.pc = "overrides"
    /\ LET c == [cli EXCEPT !.config = Some(ApplyOverrides(cli.config.value, cli.opts))]
       IN  \E answer \in {"yes", "no", "cancel"} :
             cli' = CASE answer = "yes" -> [c EXCEPT !.pc = "generate"]
                      [] answer = "no" -> Advance(c, "generate", <<"Monitor not started">>, <<>>)
                      [] answer = "cancel" -> Cancelled(c)
    /\ UNCHANGED <<sessionsFile, configFiles, baseDirs, alive, now, binary,
                   sessionDirs, procCwd, procStart, timers, harnessVars, tvarsAll, race, wiz>>

\* The CLI overrides, the summary, and confirmStart.
WaOverrides ==
    /\ cli.pc = "overrides"
    /\ LET c == [cli EXCEPT !.config = Some(ApplyOverrides(cli.config.value, cli.opts))]
       IN  \E answer \in {"yes", "no", "cancel"} :
             cli' = CASE answer = "yes" -> [c EXCEPT !.pc = "generate"]
                      [] answer = "no" -> Advance(c, "done", <<"Monitor not started">>, <<>>)
                      [] answer = "cancel" -> Cancelled(c)
    /\ UNCHANGED <<sessionsFile, configFiles, baseDirs, alive, now, binary,
                   sessionDirs, procCwd, procStart, timers, harnessVars, tvarsAll, race, wiz>>

\* The templates loadTemplate is called for, in the order of the calls.
TemplateCategories == <<"networks", "monitors", "triggers">>

\* How the three loadTemplate calls can end: all return, or one of them
\* raises (its file cannot be read, or its text does not parse as JSON).
LoadTemplateOutcomes ==
    {"rendered"} \cup {TemplateCategories[i] : i \in 1..Len(TemplateCategories)}

\* whaleAlertCommand that creates the session directory before it loads the
\* templates.
WaGenerateDirFirst ==
    /\ cli.pc = "generate"
    /\ LET config == cli.config.value
           found == NetworkPresetLookup(config.network)
       IN  IF found.kind = "undefined"
           THEN /\ cli' = Advance(cli, "done", <<"Unknown network">>, <<>>)
                /\ UNCHANGED sessionDirs
           ELSE \E outcome \in LoadTemplateOutcomes, id \in SessionIds :
                  /\ sessionDirs' = [sessionDirs EXCEPT ![id].exists = TRUE]
                  /\ IF found.kind = "preset" /\ outcome = "rendered"
                     THEN cli' = Advance([cli EXCEPT !.id = id,
                                               !.docs = RenderConfigs(config, found.value)],
                                         "writeOZConfigs", <<>>,
                                         <<"createSessionDir", "loadTemplate">>)
                     ELSE cli' = Advance([cli EXCEPT !.id = id], "done",
                                         <<"Failed to generate configuration">>,
                                         <<"createSessionDir">>)
    /\ UNCHANGED <<sessionsFile, configFiles, baseDirs, alive, now, binary,
                   procCwd, procStart, timers, harnessVars, tvarsAll, race, wiz>>

\* The preset lookup, buildTemplateVars and the three loadTemplate calls.
\* loadTemplate raises when the template file cannot be read or its text
\* does not parse; an inherited value has no slug, and templates/networks
\* holds no undefined.json. The catch of whaleAlertCommand reports it.
WaGenerate ==
    /\ cli.pc = "generate"
    /\ LET config == cli.config.value
           found == NetworkPresetLookup(config.network)
       IN  IF found.kind = "undefined"
           THEN cli' = Advance(cli, "done", <<"Unknown network">>, <<>>)
           ELSE \E outcome \in LoadTemplateOutcomes :
                  IF found.kind = "preset" /\ outcome = "rendered"
                  THEN cli' = Advance([cli EXCEPT !.docs = RenderConfigs(config, found.value)],
                                      "createSessionDir", <<>>, <<"loadTemplate">>)
                  ELSE cli' = Advance(cli, "done",
                                      <<"Failed to generate configuration">>, <<>>)
    /\ UNCHANGED <<sessionsFile, configFiles, baseDirs, alive, now, binary,
                   sessionDirs, procCwd, procStart, timers, harnessVars, tvarsAll, race, wiz>>

\* const sessionId = generateSessionId(); await createSessionDir(sessionId)
WaCreateSessionDir ==
    /\ cli.pc = "createSessionDir"
    /\ \E id \in SessionIds :
          /\ sessionDirs' = [sessionDirs EXCEPT ![id].exists = TRUE]
          /\ cli' = Advance([cli EXCEPT !.id = id], "writeOZConfigs",
                            <<>>, <<"createSessionDir">>)
    /\ UNCHANGED <<sessionsFile, configFiles, baseDirs, alive, now, binary,
                   procCwd, procStart, timers, harnessVars, tvarsAll, race, wiz>>

\* The documents writeOZConfigs writes, in the order of its Bun.write calls.
DocumentKinds == <<"network", "monitor", "trigger">>

\* The documents on disk after writeOZConfigs wrote the first n of them.
Written(n) == {DocumentKinds[i] : i \in 1..n}

\* writeOZConfigs that writes the network document only.
WaWriteNetworkOnly ==
    /\ cli.pc = "writeOZConfigs"
    /\ sessionDirs' = [sessionDirs EXCEPT ![cli.id].docs = @ \cup Written(1)]
    /\ cli' = Advance(cli, "startMonitor", <<"Configuration generated">>,
                      <<"writeOZConfigs">>)
    /\ UNCHANGED <<sessionsFile, configFiles, baseDirs, alive, now, binary,
                   procCwd, procStart, timers, harnessVars, tvarsAll, race, wiz>>

\* await writeOZConfigs(sessionDir, networkConfig, monitorConfig, triggerConfig)
\* Three Bun.write calls in a row; when one raises, the documents written
\* before it stay and the catch of whaleAlertCommand reports the error.
WaWriteOZConfigs ==
    /\ cli.pc = "writeOZConfigs"
    /\ \E n \in 0..Len(DocumentKinds) :
          /\ sessionDirs' = [sessionDirs EXCEPT ![cli.id].docs = @ \cup Written(n)]
          /\ cli' = IF n = Len(DocumentKinds)
                    THEN Advance(cli, "startMonitor", <<"Configuration generated">>,
                                 <<"writeOZConfigs">>)
                    ELSE Advance(cli, "done", <<"Failed to generate configuration">>,
                                 <<>>)
    /\ UNCHANGED <<sessionsFile, configFiles, baseDirs, alive, now, binary,
                   procCwd, procStart, timers, harnessVars, tvarsAll, race, wiz>>

\* How downloadBinary can end: the binary installed; fetch throws; the
\* release query answers not ok; the release has no asset for the platform;
\* curl, tar, rm or chmod exits non-zero; the binary is not a file after the
\* extraction.
DownloadOutcomes ==
    {"installed", "fetchThrows", "releaseNotOk", "noAsset", "downloadFails",
     "extractFails", "binaryMissing"}

\* What downloadBinary's spinner stops with.
DownloadMessage(outcome) ==
    CASE outcome = "installed" -> "OpenZeppelin Monitor installed"
      [] outcome = "releaseNotOk" -> "Failed to fetch release info"
      [] outcome = "noAsset" -> "Binary not found for your platform"
      [] outcome = "binaryMissing" -> "Binary extraction failed"
      [] OTHER -> "Failed to download binary"

\* startMonitor that starts the binary whatever downloadBinary returned.
WaStartMonitorAnyway ==
    /\ cli.pc = "startMonitor"
    /\ IF binary
       THEN /\ cli' = [cli EXCEPT !.pc = "spawn"]
            /\ UNCHANGED binary
       ELSE \E outcome \in DownloadOutcomes :
              /\ binary' = (outcome = "installed")
              /\ cli' = Advance(cli, "spawn", <<DownloadMessage(outcome)>>,
                                IF outcome = "installed" THEN <<"downloadBinary">> ELSE <<>>)
    /\ UNCHANGED <<sessionsFile, configFiles, baseDirs, alive, now, sessionDirs,
                   procCwd, procStart, timers, harnessVars, tvarsAll, race, wiz>>

\* startMonitor up to startWithBinary: hasBinary, else downloadBinary; when
\* that returns false, startMonitor returns null.
WaStartMonitor ==
    /\ cli.pc = "startMonitor"
    /\ IF binary
       THEN /\ cli' = [cli EXCEPT !.pc = "spawn"]
            /\ UNCHANGED binary
       ELSE \E outcome \in DownloadOutcomes :
              /\ binary' = (outcome = "installed")
              /\ cli' = IF outcome = "installed"
                        THEN Advance(cli, "spawn", <<DownloadMessage(outcome)>>,
                                     <<"downloadBinary">>)
                        ELSE Advance([cli EXCEPT !.result = Null], "report",
                                     <<DownloadMessage(outcome),
                                       "Failed to set up OZ Monitor">>, <<>>)
    /\ UNCHANGED <<sessionsFile, configFiles, baseDirs, alive, now, sessionDirs,
                   procCwd, procStart, timers, harnessVars, tvarsAll, race, wiz>>

\* startWithBinary: Bun.spawn([binaryPath], {cwd: sessionDir, ...}); when it
\* throws, startWithBinary returns null.
WaSpawn ==
    /\ cli.pc = "spawn"
    /\ \/ \E p \in Pids \ alive :
            /\ alive' = alive \cup {p}
            /\ procCwd' = [procCwd EXCEPT ![p] = SessionDirOf(cli.id)]
            /\ procStart' = [procStart EXCEPT ![p] = now]
            /\ cli' = Advance([cli EXCEPT !.pid = p], "addSession", <<>>, <<"spawn">>)
       \/ /\ cli' = Advance([cli EXCEPT !.result = Null], "report",
                            <<"Failed to start binary">>, <<>>)
          /\ UNCHANGED <<alive, procCwd, procStart>>
    /\ UNCHANGED <<sessionsFile, configFiles, baseDirs, now, binary, sessionDirs,
                   timers, harnessVars, tvarsAll, race, wiz>>

\* startWithBinary: the SessionInfo, addSession, the delayed check is
\* scheduled, the session is returned.
WaAddSession ==
    /\ cli.pc = "addSession"
    /\ LET session == SessionInfoOf(cli.id, SessionDirOf(cli.id), TOOL_NAME, cli.pid, now)
       IN  /\ sessionsFile' = addSession(sessionsFile, session)
           /\ cli' = Advance([cli EXCEPT !.result = Some(session)], "report",
                             <<>>, <<"addSession">>)
    /\ baseDirs' = TRUE
    /\ timers' = [timers EXCEPT ![cli.id] = @ + 1]
    /\ UNCHANGED <<configFiles, alive, now, binary, sessionDirs, procCwd, procStart,
                   harnessVars, tvarsAll, race, wiz>>

\* whaleAlertCommand reports what startMonitor returned.
WaReport ==
    /\ cli.pc = "report"
    /\ cli' = Advance(cli, "done",
                      IF cli.result.isNull THEN <<"Failed to start monitor">>
                      ELSE <<"Monitor started">>, <<>>)
    /\ UNCHANGED <<sessionsFile, configFiles, baseDirs, alive, now, binary,
                   sessionDirs, procCwd, procStart, timers, harnessVars, tvarsAll, race, wiz>>

\* blip0 stop <session-id>
InvokeStop ==
    /\ cli.pc \in {"idle", "exited"}
    /\ \E id \in SessionIds \cup {""} :
          cli' = [CliIdle EXCEPT !.pc = "stopCommand", !.cmd = "stop", !.id = id]
    /\ UNCHANGED <<sessionsFile, configFiles, baseDirs, alive, now, binary,
                   sessionDirs, procCwd, procStart, timers, harnessVars, tvarsAll, race, wiz>>

\* stopCommand: an empty id is asked for and nothing else happens; else the
\* session is looked up before stopMonitor is called.
\* loadSessions throws on a file that does not hold JSON; nothing catches it
\* in stopCommand.
StopCommandLookup ==
    /\ cli.pc = "stopCommand"
    /\ \E parses \in BOOLEAN :
          cli' = IF cli.id = ""
                 THEN Advance(cli, "done", <<"Please provide a session ID">>, <<>>)
                 ELSE IF sessionsFile.exists /\ ~parses
                 THEN Threw(cli)
                 ELSE IF FindSession(loadSessions(sessionsFile), cli.id) = 0
                      THEN Advance(cli, "done", <<"Session not found: id">>, <<>>)
                      ELSE [cli EXCEPT !.pc = "stopMonitor"]
    /\ UNCHANGED <<sessionsFile, configFiles, baseDirs, alive, now, binary,
                   sessionDirs, procCwd, procStart, timers, harnessVars, tvarsAll, race, wiz>>

\* stopMonitor: sessions.find; an unknown id is reported and false returned.
StopMonitorLookup ==
    /\ cli.pc = "stopMonitor"
    /\ LET sessions == loadSessions(sessionsFile)
           i == FindSession(sessions, cli.id)
       IN  cli' = IF i = 0
                  THEN Advance([cli EXCEPT !.result = Some(FALSE)], "stopReport",
                               <<"Session not found">>, <<>>)
                  ELSE [cli EXCEPT !.session = Some(sessions[i]), !.pc = "kill"]
    /\ UNCHANGED <<sessionsFile, configFiles, baseDirs, alive, now, binary,
                   sessionDirs, procCwd, procStart, timers, harnessVars, tvarsAll, race, wiz>>

\* stopMonitor with a kill whose failure is not caught where it happens: the
\* outer catch reports it and false is returned.
StopKillStrict ==
    /\ cli.pc = "kill"
    /\ LET s == cli.session.value
       IN  IF HasPid(s) /\ s.pid \notin alive
           THEN /\ cli' = Advance([cli EXCEPT !.killFailed = TRUE, !.result = Some(FALSE)],
                                  "stopReport", <<"Failed to stop monitor">>, <<"kill">>)
                /\ UNCHANGED alive
           ELSE /\ alive' = alive \ (IF HasPid(s) THEN {s.pid} ELSE {})
                /\ cli' = Advance(cli, "updateStatus", <<>>,
                                  IF HasPid(s) THEN <<"kill">> ELSE <<>>)
    /\ UNCHANGED <<sessionsFile, configFiles, baseDirs, now, binary, sessionDirs,
                   procCwd, procStart, timers, harnessVars, tvarsAll, race, wiz>>

\* stopMonitor: if (session.pid) kill it. kill exits non-zero when no such
\* process exists; the throw is caught and ignored.
StopKill ==
    /\ cli.pc = "kill"
    /\ LET s == cli.session.value
       IN  IF HasPid(s)
           THEN /\ alive' = alive \ {s.pid}
                /\ cli' = Advance([cli EXCEPT !.killFailed = (s.pid \notin alive)],
                                  "updateStatus", <<>>, <<"kill">>)
           ELSE /\ cli' = [cli EXCEPT !.pc = "updateStatus"]
                /\ UNCHANGED alive
    /\ UNCHANGED <<sessionsFile, configFiles, baseDirs, now, binary, sessionDirs,
                   procCwd, procStart, timers, harnessVars, tvarsAll, race, wiz>>

\* await updateSessionStatus(sessionId, "stopped")
StopUpdateStatus ==
    /\ cli.pc = "updateStatus"
    /\ sessionsFile' = updateSessionStatus(sessionsFile, cli.id, "stopped", <<>>)
    /\ baseDirs' = (baseDirs \/ FindSession(loadSessions(sessionsFile), cli.id) # 0)
    /\ cli' = Advance(cli, "cleanupSession", <<>>, <<"updateSessionStatus">>)
    /\ UNCHANGED <<configFiles, alive, now, binary, sessionDirs, procCwd, procStart, timers,
                   harnessVars, tvarsAll, race, wiz>>

\* stopMonitor that returns true once the directory is deleted.
StopCleanupAndReturn ==
    /\ cli.pc = "cleanupSession"
    /\ sessionDirs' = [sessionDirs EXCEPT ![cli.id] = [exists |-> FALSE, docs |-> {}]]
    /\ cli' = Advance([cli EXCEPT !.result = Some(TRUE)], "stopReport",
                      <<>>, <<"cleanupSession">>)
    /\ UNCHANGED <<sessionsFile, configFiles, baseDirs, alive, now, binary,
                   procCwd, procStart, timers, harnessVars, tvarsAll, race, wiz>>

\* await cleanupSession(sessionId): rm -rf of the session directory.
StopCleanupSession ==
    /\ cli.pc = "cleanupSession"
    /\ sessionDirs' = [sessionDirs EXCEPT ![cli.id] = [exists |-> FALSE, docs |-> {}]]
    /\ cli' = Advance(cli, "removeSession", <<>>, <<"cleanupSession">>)
    /\ UNCHANGED <<sessionsFile, configFiles, baseDirs, alive, now, binary,
                   procCwd, procStart, timers, harnessVars, tvarsAll, race, wiz>>

\* await removeSession(sessionId); return true
StopRemoveSession ==
    /\ cli.pc = "removeSession"
    /\ sessionsFile' = removeSession(sessionsFile, cli.id)
    /\ baseDirs' = TRUE
    /\ cli' = Advance([cli EXCEPT !.result = Some(TRUE)], "stopReport",
                      <<>>, <<"removeSession">>)
    /\ UNCHANGED <<configFiles, alive, now, binary, sessionDirs, procCwd, procStart, timers,
                   harnessVars, tvarsAll, race, wiz>>

\* stopCommand reports what stopMonitor returned.
StopReport ==
    /\ cli.pc = "stopReport"
    /\ cli' = Advance(cli, "done",
                      IF cli.result.value THEN <<"Stopped">> ELSE <<"Failed to stop">>,
                      <<>>)
    /\ UNCHANGED <<sessionsFile, configFiles, baseDirs, alive, now, binary,
                   sessionDirs, procCwd, procStart, timers, harnessVars, tvarsAll, race, wiz>>

\* blip0 list
InvokeList ==
    /\ cli.pc \in {"idle", "exited"}
    /\ cli' = [CliIdle EXCEPT !.pc = "listCommand", !.cmd = "list"]
    /\ UNCHANGED <<sessionsFile, configFiles, baseDirs, alive, now, binary,
                   sessionDirs, procCwd, procStart, timers, harnessVars, tvarsAll, race, wiz>>

\* listCommand that shows the status stored in the record.
ListCommandStored ==
    /\ cli.pc = "listCommand"
    /\ \E parses \in BOOLEAN :
          LET sessions == loadSessions(sessionsFile)
          IN  cli' = IF sessionsFile.exists /\ ~parses
                     THEN Threw(cli)
                     ELSE IF sessions = <<>>
                          THEN Advance(cli, "done", <<"No monitors running.">>, <<>>)
                          ELSE [cli EXCEPT
                                  !.pc = "done",
                                  !.rows = [i \in 1..Len(sessions) |->
                                              [id |-> sessions[i].id,
                                               tool |-> sessions[i].tool,
                                               status |-> sessions[i].status]]]
    /\ UNCHANGED <<sessionsFile, configFiles, baseDirs, alive, now, binary,
                   sessionDirs, procCwd, procStart, timers, harnessVars, tvarsAll, race, wiz>>

\* listCommand: one row per record, shown as running when isSessionRunning
\* says so and as stopped otherwise.
ListCommand ==
    /\ cli.pc = "listCommand"
    /\ \E parses \in BOOLEAN, psWorks \in BOOLEAN :
          LET sessions == loadSessions(sessionsFile)
          IN  cli' = IF sessionsFile.exists /\ ~parses
                     THEN Threw(cli)
                     ELSE IF sessions = <<>>
                          THEN Advance(cli, "done", <<"No monitors running.">>, <<>>)
                          ELSE [cli EXCEPT
                                  !.pc = "done",
                                  !.rows = [i \in 1..Len(sessions) |->
                                              [id |-> sessions[i].id,
                                               tool |-> sessions[i].tool,
                                               status |->
                                                 IF isSessionRunning(sessionsFile,
                                                        sessions[i].id, alive, psWorks)
                                                 THEN "running" ELSE "stopped"]]]
    /\ UNCHANGED <<sessionsFile, configFiles, baseDirs, alive, now, binary,
                   sessionDirs, procCwd, procStart, timers, harnessVars, tvarsAll, race, wiz>>

\* An exit code that does not tell a thrown error from a return.
ExitCodeZero(threw) == 0

\* The exit code for a handler that returned, and for one that threw.
ExitCode(threw) == IF threw THEN 1 ELSE 0

\* The program action around the handler: an error that escapes is logged
\* and the process exits with 1; otherwise the process ends with 0.
ProgramExit ==
    /\ cli.pc = "done"
    /\ cli' = ProcessExit(Advance(cli, cli.pc, IF cli.threw THEN <<"Error">> ELSE <<>>, <<>>),
                          ExitCode(cli.threw))
    /\ UNCHANGED <<sessionsFile, configFiles, baseDirs, alive, now, binary,
                   sessionDirs, procCwd, procStart, timers, harnessVars, tvarsAll, race, wiz>>

\* A monitor process exits on its own.
MonitorExits ==
    /\ \E p \in alive : alive' = alive \ {p}
    /\ UNCHANGED <<sessionsFile, configFiles, baseDirs, now, binary, sessionDirs,
                   procCwd, procStart, timers, cli, harnessVars, tvarsAll, race, wiz>>

\* The check startWithBinary scheduled runs: a session that is not running
\* is marked "error".
LivenessCheck ==
    /\ \E id \in {i \in SessionIds : timers[i] > 0}, psWorks \in BOOLEAN :
          /\ timers' = [timers EXCEPT ![id] = @ - 1]
          /\ IF isSessionRunning(sessionsFile, id, alive, psWorks)
             THEN UNCHANGED <<sessionsFile, baseDirs>>
             ELSE /\ sessionsFile' = updateSessionStatus(sessionsFile, id, "error", <<>>)
                  /\ baseDirs' = (baseDirs \/ FindSession(loadSessions(sessionsFile), id) # 0)
    /\ UNCHANGED <<configFiles, alive, now, binary, sessionDirs, procCwd, procStart, cli,
                   harnessVars, tvarsAll, race, wiz>>

Init ==
    /\ SubstIdle
    /\ StoreIdle
    /\ SysIdle

Next ==
    \/ InvokeWhaleAlert
    \/ WaLoadConfig
    \/ WaConfirmSaved
    \/ WaWizard
    \/ WaOverrides
    \/ WaGenerate
    \/ WaCreateSessionDir
    \/ WaWriteOZConfigs
    \/ WaStartMonitor
    \/ WaSpawn
    \/ WaAddSession
    \/ WaReport
    \/ InvokeStop
    \/ StopCommandLookup
    \/ StopMonitorLookup
    \/ StopKill
    \/ StopUpdateStatus
    \/ StopCleanupSession
    \/ StopRemoveSession
    \/ StopReport
    \/ InvokeList
    \/ ListCommand
    \/ ProgramExit
    \/ MonitorExits
    \/ LivenessCheck

Spec == Init /\ [][Next]_allVars

(**************************************************************************)
(* Two invocations at once: every registry operation is a loadSessions    *)
(* followed, in a later step, by a saveSessions                           *)
(**************************************************************************)

\* What no step of the two invocations touches.
RaceFrame == UNCHANGED <<configFiles, now, binary, timers, cli, harnessVars, tvarsAll, wiz>>

\* The home directory the two invocations find: fresh but for the binary,
\* or holding one session an earlier whale-alert run started, whose monitor
\* is running or has exited.
RaceInit ==
    /\ SubstIdle
    /\ configFiles = [t \in ToolNames |-> [exists |-> FALSE, content |-> <<>>]]
    /\ now = 0
    /\ hop = [name |-> "none"]
    /\ ret = [of |-> "none"]
    /\ cfgHist = [t \in ToolNames |-> [ever |-> FALSE, saved |-> FALSE, config |-> <<>>]]
    /\ binary = TRUE
    /\ procStart = [p \in Pids |-> 0]
    /\ timers = [i \in SessionIds |-> 0]
    /\ cli = CliIdle
    /\ race = [p \in Procs |-> ProcIdle]
    /\ wiz = WizIdle
    /\ \/ /\ sessionsFile = [exists |-> FALSE, content |-> <<>>]
          /\ baseDirs = FALSE
          /\ alive = {}
          /\ sessionDirs = [i \in SessionIds |-> [exists |-> FALSE, docs |-> {}]]
          /\ procCwd = [p \in Pids |-> <<>>]
       \/ \E id \in SessionIds, pid \in Pids, running \in BOOLEAN :
             /\ sessionsFile = addSession([exists |-> FALSE, content |-> <<>>],
                                  SessionInfoOf(id, SessionDirOf(id), TOOL_NAME, pid, 0))
             /\ baseDirs = TRUE
             /\ alive = IF running THEN {pid} ELSE {}
             /\ sessionDirs = [i \in SessionIds |->
                                 IF i = id
                                 THEN [exists |-> TRUE, docs |-> Written(Len(DocumentKinds))]
                                 ELSE [exists |-> FALSE, docs |-> {}]]
             /\ procCwd = [p \in Pids |-> IF p = pid THEN SessionDirOf(id) ELSE <<>>]

\* blip0 whale-alert in one terminal, up to the call of startMonitor: the
\* session id is drawn, the session directory made, the documents written.
RaceInvokeWhaleAlert ==
    \E p \in Procs, id \in SessionIds :
        /\ race[p].pc = "idle"
        /\ sessionDirs' = [sessionDirs EXCEPT
                              ![id] = [exists |-> TRUE,
                                       docs |-> @.docs \cup Written(Len(DocumentKinds))]]
        /\ race' = [race EXCEPT
                       ![p] = [ProcIdle EXCEPT !.pc = "spawn", !.cmd = "whale-alert",
                                               !.id = id]]
        /\ UNCHANGED <<sessionsFile, baseDirs, alive, procCwd, procStart>>
        /\ RaceFrame

\* startWithBinary: Bun.spawn; when it throws, null is returned.
RaceSpawn ==
    \E p \in Procs :
        /\ race[p].pc = "spawn"
        /\ \/ \E pid \in Pids \ alive :
                /\ alive' = alive \cup {pid}
                /\ procCwd' = [procCwd EXCEPT ![pid] = SessionDirOf(race[p].id)]
                /\ race' = [race EXCEPT
                               ![p] = Advance([@ EXCEPT !.pid = pid], "addSessionLoad",
                                              <<>>, <<"spawn">>)]
           \/ /\ race' = [race EXCEPT
                               ![p] = Advance(@, "end", <<"Failed to start binary",
                                                          "Failed to start monitor">>,
                                              <<>>)]
              /\ UNCHANGED <<alive, procCwd>>
        /\ UNCHANGED <<sessionsFile, baseDirs, sessionDirs, procStart>>
        /\ RaceFrame

\* addSession: const sessions = await loadSessions()
RaceAddSessionLoad ==
    \E p \in Procs :
        /\ race[p].pc = "addSessionLoad"
        /\ race' = [race EXCEPT ![p] = [@ EXCEPT !.read = sessionsFile,
                                                 !.pc = "addSessionSave"]]
        /\ UNCHANGED <<sessionsFile, baseDirs, alive, sessionDirs, procCwd, procStart>>
        /\ RaceFrame

\* addSession that takes the registry as it is when it writes.
RaceAddSessionSaveMerged ==
    \E p \in Procs :
        /\ race[p].pc = "addSessionSave"
        /\ sessionsFile' = addSession(sessionsFile,
                                SessionInfoOf(race[p].id, SessionDirOf(race[p].id),
                                              TOOL_NAME, race[p].pid, now))
        /\ baseDirs' = TRUE
        /\ race' = [race EXCEPT
                       ![p] = Advance(@, "check", <<"Monitor started">>, <<"addSession">>)]
        /\ UNCHANGED <<alive, sessionDirs, procCwd, procStart>>
        /\ RaceFrame

\* addSession: sessions.push(session); await saveSessions(sessions). The
\* command reports the start; the process stays for the delayed check.
RaceAddSessionSave ==
    \E p \in Procs :
        /\ race[p].pc = "addSessionSave"
        /\ sessionsFile' = addSession(race[p].read,
                                SessionInfoOf(race[p].id, SessionDirOf(race[p].id),
                                              TOOL_NAME, race[p].pid, now))
        /\ baseDirs' = TRUE
        /\ race' = [race EXCEPT
                       ![p] = Advance(@, "check", <<"Monitor started">>, <<"addSession">>)]
        /\ UNCHANGED <<alive, sessionDirs, procCwd, procStart>>
        /\ RaceFrame

\* The delayed check: isSessionRunning(sessionId); when it is false,
\* updateSessionStatus(sessionId, "error") follows.
RaceCheck ==
    \E p \in Procs, psWorks \in BOOLEAN :
        /\ race[p].pc = "check"
        /\ race' = [race EXCEPT
                       ![p] = IF isSessionRunning(sessionsFile, race[p].id, alive, psWorks)
                              THEN [@ EXCEPT !.pc = "end"]
                              ELSE [@ EXCEPT !.pc = "updateLoad", !.status = "error"]]
        /\ UNCHANGED <<sessionsFile, baseDirs, alive, sessionDirs, procCwd, procStart>>
        /\ RaceFrame

\* updateSessionStatus: const sessions = await loadSessions()
RaceUpdateLoad ==
    \E p \in Procs :
        /\ race[p].pc = "updateLoad"
        /\ race' = [race EXCEPT ![p] = [@ EXCEPT !.read = sessionsFile,
                                                 !.pc = "updateSave"]]
        /\ UNCHANGED <<sessionsFile, baseDirs, alive, sessionDirs, procCwd, procStart>>
        /\ RaceFrame

\* updateSessionStatus: if the session is among those read, its status is
\* set and the list that was read is saved. The delayed check ends here;
\* stopMonitor goes on to cleanupSession.
RaceUpdateSave ==
    \E p \in Procs :
        /\ race[p].pc = "updateSave"
        /\ IF FindSession(loadSessions(race[p].read), race[p].id) = 0
           THEN UNCHANGED <<sessionsFile, baseDirs>>
           ELSE /\ sessionsFile' = updateSessionStatus(race[p].read, race[p].id,
                                                       race[p].status, <<>>)
                /\ baseDirs' = TRUE
        /\ race' = [race EXCEPT
                       ![p] = Advance(@, IF race[p].cmd = "stop" THEN "cleanupSession"
                                         ELSE "end",
                                      <<>>, <<"updateSessionStatus">>)]
        /\ UNCHANGED <<alive, sessionDirs, procCwd, procStart>>
        /\ RaceFrame

\* blip0 stop <session-id> in one terminal.
RaceInvokeStop ==
    \E p \in Procs, id \in SessionIds \cup {""} :
        /\ race[p].pc = "idle"
        /\ race' = [race EXCEPT
                       ![p] = [ProcIdle EXCEPT !.pc = "stopCommand", !.cmd = "stop",
                                               !.id = id]]
        /\ UNCHANGED <<sessionsFile, baseDirs, alive, sessionDirs, procCwd, procStart>>
        /\ RaceFrame

\* stopCommand: the empty id, then loadSessions and find.
RaceStopCommand ==
    \E p \in Procs :
        /\ race[p].pc = "stopCommand"
        /\ race' = [race EXCEPT
                       ![p] = IF race[p].id = ""
                              THEN Advance(@, "end", <<"Please provide a session ID">>, <<>>)
                              ELSE IF FindSession(loadSessions(sessionsFile), race[p].id) = 0
                              THEN Advance(@, "end", <<"Session not found: id">>, <<>>)
                              ELSE [@ EXCEPT !.pc = "stopMonitor"]]
        /\ UNCHANGED <<sessionsFile, baseDirs, alive, sessionDirs, procCwd, procStart>>
        /\ RaceFrame

\* stopMonitor that stops whatever the registry holds under the id's first
\* record, or nothing recorded at all.
RaceStopMonitorBlind ==
    \E p \in Procs :
        /\ race[p].pc = "stopMonitor"
        /\ LET sessions == loadSessions(sessionsFile)
               i == FindSession(sessions, race[p].id)
           IN  race' = [race EXCEPT
                          ![p] = [@ EXCEPT !.session = IF i = 0 THEN Some([id |-> race[p].id])
                                                       ELSE Some(sessions[i]),
                                           !.pc = "kill"]]
        /\ UNCHANGED <<sessionsFile, baseDirs, alive, sessionDirs, procCwd, procStart>>
        /\ RaceFrame

\* stopMonitor: loadSessions and find; an unknown id is reported and false
\* returned.
RaceStopMonitor ==
    \E p \in Procs :
        /\ race[p].pc = "stopMonitor"
        /\ LET sessions == loadSessions(sessionsFile)
               i == FindSession(sessions, race[p].id)
           IN  race' = [race EXCEPT
                          ![p] = IF i = 0
                                 THEN Advance([@ EXCEPT !.result = Some(FALSE)], "stopReport",
                                              <<"Session not found">>, <<>>)
                                 ELSE [@ EXCEPT !.session = Some(sessions[i]),
                                                !.pc = "kill"]]
        /\ UNCHANGED <<sessionsFile, baseDirs, alive, sessionDirs, procCwd, procStart>>
        /\ RaceFrame

\* stopMonitor: if (session.pid) kill it; a failing kill is ignored.
RaceKill ==
    \E p \in Procs :
        /\ race[p].pc = "kill"
        /\ LET s == race[p].session.value
           IN  /\ alive' = alive \ (IF HasPid(s) THEN {s.pid} ELSE {})
               /\ race' = [race EXCEPT
                              ![p] = Advance([@ EXCEPT !.status = "stopped"], "updateLoad",
                                             <<>>, IF HasPid(s) THEN <<"kill">> ELSE <<>>)]
        /\ UNCHANGED <<sessionsFile, baseDirs, sessionDirs, procCwd, procStart>>
        /\ RaceFrame

\* await cleanupSession(sessionId)
RaceCleanupSession ==
    \E p \in Procs :
        /\ race[p].pc = "cleanupSession"
        /\ sessionDirs' = [sessionDirs EXCEPT
                              ![race[p].id] = [exists |-> FALSE, docs |-> {}]]
        /\ race' = [race EXCEPT
                       ![p] = Advance(@, "removeLoad", <<>>, <<"cleanupSession">>)]
        /\ UNCHANGED <<sessionsFile, baseDirs, alive, procCwd, procStart>>
        /\ RaceFrame

\* removeSession: const sessions = await loadSessions()
RaceRemoveLoad ==
    \E p \in Procs :
        /\ race[p].pc = "removeLoad"
        /\ race' = [race EXCEPT ![p] = [@ EXCEPT !.read = sessionsFile,
                                                 !.pc = "removeSave"]]
        /\ UNCHANGED <<sessionsFile, baseDirs, alive, sessionDirs, procCwd, procStart>>
        /\ RaceFrame

\* removeSession: the filtered list is saved; stopMonitor returns true.
RaceRemoveSave ==
    \E p \in Procs :
        /\ race[p].pc = "removeSave"
        /\ sessionsFile' = removeSession(race[p].read, race[p].id)
        /\ baseDirs' = TRUE
        /\ race' = [race EXCEPT
                       ![p] = Advance([@ EXCEPT !.result = Some(TRUE)], "stopReport",
                                      <<>>, <<"removeSession">>)]
        /\ UNCHANGED <<alive, sessionDirs, procCwd, procStart>>
        /\ RaceFrame

\* stopCommand reports what stopMonitor returned.
RaceStopReport ==
    \E p \in Procs :
        /\ race[p].pc = "stopReport"
        /\ race' = [race EXCEPT
                       ![p] = Advance(@, "end",
                                      IF race[p].result.value THEN <<"Stopped">>
                                      ELSE <<"Failed to stop">>, <<>>)]
        /\ UNCHANGED <<sessionsFile, baseDirs, alive, sessionDirs, procCwd, procStart>>
        /\ RaceFrame

RaceNext ==
    \/ RaceInvokeWhaleAlert
    \/ RaceSpawn
    \/ RaceAddSessionLoad
    \/ RaceAddSessionSave
    \/ RaceCheck
    \/ RaceUpdateLoad
    \/ RaceUpdateSave
    \/ RaceInvokeStop
    \/ RaceStopCommand
    \/ RaceStopMonitor
    \/ RaceKill
    \/ RaceCleanupSession
    \/ RaceRemoveLoad
    \/ RaceRemoveSave
    \/ RaceStopReport
    \/ MonitorExits

SpecRace == RaceInit /\ [][RaceNext]_allVars

(**************************************************************************)
(* whaleAlertWizard, prompt by prompt                                     *)
(**************************************************************************)

\* What the wizard's steps leave alone.
WizFrame ==
    UNCHANGED <<storeVars, tvarsAll, binary, sessionDirs, procCwd, procStart, timers,
                cli, race>>

\* input.startsWith(prefix)
StartsWith(s, prefix) ==
    /\ Len(s) >= Len(prefix)
    /\ SubSeq(s, 1, Len(prefix)) = prefix

\* input.trim(), for the white space a line of input can hold.
RECURSIVE Trim(_)
Trim(s) ==
    IF s = <<>> THEN <<>>
    ELSE IF Head(s) = " " THEN Trim(Tail(s))
    ELSE IF s[Len(s)] = " " THEN Trim(SubSeq(s, 1, Len(s) - 1))
    ELSE s

Digits == {"0", "1", "2", "3", "4", "5", "6", "7", "8", "9"}

DigitValue(c) ==
    CASE c = "0" -> 0 [] c = "1" -> 1 [] c = "2" -> 2 [] c = "3" -> 3 [] c = "4" -> 4
      [] c = "5" -> 5 [] c = "6" -> 6 [] c = "7" -> 7 [] c = "8" -> 8 [] c = "9" -> 9

\* The value of the longest run of digits s starts with, after acc.
RECURSIVE DigitsValue(_, _)
DigitsValue(s, acc) ==
    IF s = <<>> \/ Head(s) \notin Digits THEN acc
    ELSE DigitsValue(Tail(s), 10 * acc + DigitValue(Head(s)))

\* parseInt(input, 10): leading white space, an optional sign, then digits
\* up to the first character that is none; NaN when there is no digit.
ParseInt(input) ==
    LET t == Trim(input)
        signed == t # <<>> /\ Head(t) \in {"+", "-"}
        body == IF signed THEN Tail(t) ELSE t
    IN  IF body = <<>> \/ Head(body) \notin Digits
        THEN [nan |-> TRUE, value |-> 0]
        ELSE [nan |-> FALSE,
              value |-> IF signed /\ Head(t) = "-" THEN 0 - DigitsValue(body, 0)
                        ELSE DigitsValue(body, 0)]

\* JSON.stringify of a string: quotes around it, quote and backslash escaped.
RECURSIVE JSONEscape(_)
JSONEscape(s) ==
    IF s = <<>> THEN <<>>
    ELSE (IF Head(s) \in {"\"", "\\"} THEN <<"\\", Head(s)>> ELSE <<Head(s)>>)
         \o JSONEscape(Tail(s))

JSONString(s) == <<"\"">> \o JSONEscape(s) \o <<"\"">>

\* JSON.stringify({token, chatId})
TelegramJSON(token, chatId) ==
    <<"{", "\"", "t", "o", "k", "e", "n", "\"", ":">> \o JSONString(token)
    \o <<",", "\"", "c", "h", "a", "t", "I", "d", "\"", ":">> \o JSONString(chatId) \o <<"}">>

DISCORD_PREFIX ==
    <<"h", "t", "t", "p", "s", ":", "/", "/", "d", "i", "s", "c", "o", "r", "d", ".", "c", "o", "m", "/",
      "a", "p", "i", "/", "w", "e", "b", "h", "o", "o", "k", "s", "/">>

SLACK_PREFIX ==
    <<"h", "t", "t", "p", "s", ":", "/", "/", "h", "o", "o", "k", "s", ".",
      "s", "l", "a", "c", "k", ".", "c", "o", "m", "/">>

\* validate of the contract address, the bot token and the chat id.
ValidRequired(input) == Trim(input) # <<>>

\* validate of the threshold.
ValidThreshold(input) == ~ParseInt(input).nan /\ ParseInt(input).value > 0

\* A webhook prompt that takes any text.
ValidAnyWebhook(input, prefix) == TRUE

\* validate of the Discord and the Slack webhook URL.
ValidWebhook(input, prefix) == StartsWith(input, prefix)

\* What is typed at the text prompts.
TypedTexts ==
    {<<>>, <<" ">>, <<"4", "2", ":", "t">>, <<"-", "1", "0", "0">>, <<"a", "\"">>,
     <<"h", "t", "t", "p", ":", "/", "/", "x">>,
     DISCORD_PREFIX, DISCORD_PREFIX \o <<"1", "/", "a">>,
     SLACK_PREFIX \o <<"T", "0">>}

TypedThresholds ==
    {<<>>, <<"0">>, <<"-", "1">>, <<"a">>, <<"1", "0", "0", "0", "0", "0", "0">>,
     <<"5", "0", "k">>}

\* if (discord) .. else if (telegram) .. else if (slack) ..: the prompt the
\* wizard goes to once the channel is selected.
FollowUp(notificationType) ==
    IF notificationType = "discord" THEN "discord"
    ELSE IF notificationType = "telegram" THEN "telegramToken"
    ELSE IF notificationType = "slack" THEN "slack"
    ELSE "returned"

\* handleCancel in the wizard: the process exits at this prompt.
WizCancel == wiz' = [wiz EXCEPT !.pc = "cancelled"]

WizNetwork ==
    /\ wiz.pc = "network"
    /\ \/ \E n \in {"stellar_mainnet", "stellar_testnet"} :
            wiz' = [wiz EXCEPT !.network = n, !.pc = "contractAddress"]
       \/ WizCancel
    /\ WizFrame

WizContractAddress ==
    /\ wiz.pc = "contractAddress"
    /\ \/ \E input \in {<<"C", "C", "W", "6">>, <<" ">>} :
            /\ ValidRequired(input)
            /\ wiz' = [wiz EXCEPT !.contractAddress = input, !.pc = "contractName"]
       \/ WizCancel
    /\ WizFrame

WizContractName ==
    /\ wiz.pc = "contractName"
    /\ \/ \E input \in {<<>>, <<"U", "S", "D", "C">>} :
            wiz' = [wiz EXCEPT !.contractName = input, !.pc = "monitorTargets"]
       \/ WizCancel
    /\ WizFrame

\* fetchContractInterface and selectMonitorTargets: they return, or one of
\* their prompts is cancelled.
WizMonitorTargets ==
    /\ wiz.pc = "monitorTargets"
    /\ \/ wiz' = [wiz EXCEPT !.pc = "threshold"]
       \/ WizCancel
    /\ WizFrame

WizThreshold ==
    /\ wiz.pc = "threshold"
    /\ \/ \E input \in TypedThresholds :
            /\ ValidThreshold(input)
            /\ wiz' = [wiz EXCEPT !.threshold = input, !.pc = "notificationType"]
       \/ WizCancel
    /\ WizFrame

WizNotificationType ==
    /\ wiz.pc = "notificationType"
    /\ \/ \E nt \in {"discord", "telegram", "slack"} :
            wiz' = [wiz EXCEPT !.notificationType = nt, !.pc = FollowUp(nt),
                               !.branches = IF FollowUp(nt) = "returned" THEN @
                                            ELSE Append(@, nt)]
       \/ WizCancel
    /\ WizFrame

WizDiscord ==
    /\ wiz.pc = "discord"
    /\ \/ \E input \in TypedTexts :
            /\ ValidWebhook(input, DISCORD_PREFIX)
            /\ wiz' = [wiz EXCEPT !.webhookUrl = input, !.pc = "returned"]
       \/ WizCancel
    /\ WizFrame

WizTelegramToken ==
    /\ wiz.pc = "telegramToken"
    /\ \/ \E input \in TypedTexts :
            /\ ValidRequired(input)
            /\ wiz' = [wiz EXCEPT !.token = input, !.pc = "telegramChatId"]
       \/ WizCancel
    /\ WizFrame

WizTelegramChatId ==
    /\ wiz.pc = "telegramChatId"
    /\ \/ \E input \in TypedTexts :
            /\ ValidRequired(input)
            /\ wiz' = [wiz EXCEPT !.webhookUrl = TelegramJSON(wiz.token, input),
                                  !.pc = "returned"]
       \/ WizCancel
    /\ WizFrame

WizSlack ==
    /\ wiz.pc = "slack"
    /\ \/ \E input \in TypedTexts :
            /\ ValidWebhook(input, SLACK_PREFIX)
            /\ wiz' = [wiz EXCEPT !.webhookUrl = input, !.pc = "returned"]
       \/ WizCancel
    /\ WizFrame

WizInit ==
    /\ SubstIdle
    /\ StoreIdle
    /\ SysIdle

WizNext ==
    \/ WizNetwork
    \/ WizContractAddress
    \/ WizContractName
    \/ WizMonitorTargets
    \/ WizThreshold
    \/ WizNotificationType
    \/ WizDiscord
    \/ WizTelegramToken
    \/ WizTelegramChatId
    \/ WizSlack

SpecWizard == WizInit /\ [][WizNext]_allVars

(**************************************************************************)
(* Template engine: properties                                            *)
(**************************************************************************)

Contains(s, pat) == \E i \in 1..Len(s) : MatchesAt(s, pat, i)

NoValueContains(vars, pat) ==
    \A k \in 1..Len(vars) : ~Contains(vars[k].value, pat)

\* Every "{{" of t opens a placeholder: brace-free text closed by "}}".
WellFormedTemplate(t) ==
    \A i \in 1..Len(t) :
        MatchesAt(t, <<"{", "{">>, i) =>
            \E j \in (i + 2)..Len(t) :
                /\ MatchesAt(t, <<"}", "}">>, j)
                /\ \A m \in (i + 2)..(j - 1) : t[m] \notin {"{", "}"}

\* What the documentation describes: each occurrence of {{KEY}} in t, for a
\* key of vars, gives way to the value as written; all other text is kept.
RECURSIVE LiteralFrom(_, _, _)
LiteralFrom(t, vars, i) ==
    IF i > Len(t) THEN <<>>
    ELSE LET hit == {k \in 1..Len(vars) : MatchesAt(t, Placeholder(vars[k].key), i)}
         IN  IF hit = {} THEN <<t[i]>> \o LiteralFrom(t, vars, i + 1)
             ELSE LET k == CHOOSE k \in hit : TRUE
                  IN  vars[k].value
                      \o LiteralFrom(t, vars, i + Len(Placeholder(vars[k].key)))

LiteralSubstitute(t, vars) == LiteralFrom(t, vars, 1)

\* C6 (as stated): when no value contains "{{", substituting a second time
\* leaves the once-substituted text unchanged.
C6_IdempotentNoDoubleBrace ==
    (tpc = "twice" /\ NoValueContains(tvars, <<"{", "{">>)) => out2 = out1

\* C6 (amended): when every "{{" of the template opens a placeholder with a
\* brace-free name and no value contains "{" or "$", substituting a second
\* time leaves the once-substituted text unchanged.
C6_IdempotentWellFormed ==
    (/\ tpc = "twice"
     /\ WellFormedTemplate(tmpl)
     /\ NoValueContains(tvars, <<"{">>)
     /\ NoValueContains(tvars, <<"$">>)) => out2 = out1

\* C6 witness: a well-formed template holding both placeholders was
\* substituted twice with brace-free values, and the first pass changed it.
C6_Witness ==
    /\ tpc = "twice"
    /\ WellFormedTemplate(tmpl)
    /\ NoValueContains(tvars, <<"{">>)
    /\ NoValueContains(tvars, <<"$">>)
    /\ Contains(tmpl, Placeholder(KeyA))
    /\ Contains(tmpl, Placeholder(KeyB))
    /\ tvars[1].value # <<>>
    /\ out1 # tmpl

\* C7 (as stated): substituteVars replaces every {{KEY}} of the template by
\* the value, character for character, and changes nothing else.
C7_LiteralReplacement ==
    tpc # "input" => out1 = LiteralSubstitute(tmpl, tvars)

(**************************************************************************)
(* Config store and liveness query: properties                            *)
(**************************************************************************)

\* The instant a startedAt value denotes, as a Date or as its ISO string.
Instant(d) == IF d.type = "Date" THEN d.ms ELSE d.iso

\* Two SessionInfo values that agree on every field.
SameSession(a, b) ==
    /\ a.id = b.id
    /\ a.tool = b.tool
    /\ a.configPath = b.configPath
    /\ a.status = b.status
    /\ Instant(a.startedAt) = Instant(b.startedAt)
    /\ ("pid" \in DOMAIN a) = ("pid" \in DOMAIN b)
    /\ ("pid" \in DOMAIN a => a.pid = b.pid)

\* The records of a list whose id differs from id, in their order.
RECURSIVE OthersOf(_, _)
OthersOf(list, id) ==
    IF list = <<>> THEN <<>>
    ELSE IF Head(list).id = id THEN OthersOf(Tail(list), id)
    ELSE <<Head(list)>> \o OthersOf(Tail(list), id)

C3_RemoveThenLoad ==
    (hop.name = "removeSession" /\ ret.of = "loadSessions") =>
        /\ \A i \in 1..Len(ret.value) : ret.value[i].id # hop.id
        /\ ret.value = OthersOf(hop.before, hop.id)

\* C3 witness: an id held by the first of two records was removed, the
\* other record stayed, and the registry was loaded next.
C3_Witness ==
    /\ hop.name = "removeSession"
    /\ ret.of = "loadSessions"
    /\ Len(hop.before) = 2
    /\ hop.before[1].id = hop.id
    /\ Len(ret.value) = 1

\* Two UserConfig values whose every field reads the same (a field that is
\* not set reads undefined).
OptionalName(c) == IF "contractName" \in DOMAIN c THEN c.contractName ELSE Undefined

SameConfig(a, b) ==
    /\ \A k \in RequiredConfigKeys :
          k \in DOMAIN a /\ k \in DOMAIN b /\ a[k] = b[k]
    /\ OptionalName(a) = OptionalName(b)

\* C5: loadUserConfig(tool) returns a record equal to the one last saved for
\* that tool, and null for a tool that was never saved.
C5_ConfigRoundTrip ==
    ret.of = "loadUserConfig" =>
        /\ cfgHist[ret.tool].saved =>
              /\ ~ret.value.isNull
              /\ SameConfig(ret.value.value, cfgHist[ret.tool].config)
        /\ ~cfgHist[ret.tool].ever => ret.value.isNull

\* C5 witness: a config without a contract name was saved for one tool and
\* loaded back while the other tool had a different config saved.
C5_Witness ==
    /\ ret.of = "loadUserConfig"
    /\ cfgHist[ret.tool].saved
    /\ cfgHist[ret.tool].config.contractName = Undefined
    /\ \E t \in ToolNames \ {ret.tool} :
          /\ cfgHist[t].saved
          /\ cfgHist[t].config.network # cfgHist[ret.tool].config.network

\* C10: isSessionRunning(id) is true only when the registry holds a record
\* of that id that has a pid the operating system reports as existing; it
\* is false when the id is unknown, the record found has no pid, or the
\* query fails.
C10_IsSessionRunning ==
    ret.of = "isSessionRunning" =>
        LET i == FindSession(hop.before, hop.id)
        IN  /\ ret.value \in BOOLEAN
            /\ ret.value =>
                  \E j \in 1..Len(hop.before) :
                      /\ hop.before[j].id = hop.id
                      /\ "pid" \in DOMAIN hop.before[j]
                      /\ hop.before[j].pid \in hop.live
            /\ i = 0 => ~ret.value
            /\ (i # 0 /\ "pid" \notin DOMAIN hop.before[i]) => ~ret.value
            /\ ~hop.psWorks => ~ret.value

\* C10 witness: the query answered true for a session listed after a
\* record of another id that has no pid.
C10_Witness ==
    /\ ret.of = "isSessionRunning"
    /\ ret.value = TRUE
    /\ Len(hop.before) = 2
    /\ "pid" \notin DOMAIN hop.before[1]

(**************************************************************************)
(* The CLI: properties                                                    *)
(**************************************************************************)

\* The messages a run has shown so far, as a set.
Shown(c) == {c.reported[i] : i \in 1..Len(c.reported)}

\* The record of the given id that find() returns from the registry file.
FoundIn(file, id) == loadSessions(file)[FindSession(loadSessions(file), id)]

\* The effects of stopMonitor, in the order the claim gives them.
StopOrder == <<"kill", "updateSessionStatus", "cleanupSession", "removeSession">>

\* C1: when stopMonitor's kill fails because the recorded process id names
\* no live process, the failure is swallowed: stopMonitor goes on to write
\* status 'stopped' to the record, deletes the directory, removes the
\* record from the registry and returns true.
C1_StopDeadProcess ==
    [][/\ (/\ cli.pc = "kill"
           /\ cli'.pc # "kill"
           /\ HasPid(cli.session.value)
           /\ cli.session.value.pid \notin alive)
            => (cli'.pc = "updateStatus" /\ cli'.killFailed)
       /\ (cli.killFailed /\ cli.pc = "updateStatus" /\ cli'.pc # cli.pc)
            => /\ cli'.pc = "cleanupSession"
               /\ FindSession(loadSessions(sessionsFile'), cli.id) # 0
               /\ FoundIn(sessionsFile', cli.id).status = "stopped"
       /\ (cli.killFailed /\ cli.pc = "cleanupSession" /\ cli'.pc # cli.pc)
            => cli'.pc = "removeSession"
       /\ (cli.killFailed /\ cli.pc = "removeSession" /\ cli'.pc # cli.pc)
            => /\ cli'.pc = "stopReport"
               /\ cli'.result = Some(TRUE)
               /\ FindSession(loadSessions(sessionsFile'), cli.id) = 0
       /\ (cli'.killFailed /\ cli'.pc = "stopReport") => cli'.result = Some(TRUE)
      ]_allVars

\* C1 witness: stopMonitor has returned true for a session whose process
\* was already gone when the kill was sent, and the record is removed.
C1_Witness ==
    /\ cli.cmd = "stop"
    /\ cli.pc = "stopReport"
    /\ cli.killFailed
    /\ cli.result = Some(TRUE)
    /\ FindSession(loadSessions(sessionsFile), cli.id) = 0

\* C4 (as stated): a whale-alert run whose network slug in effect is not a
\* key of NETWORK_PRESETS ends with the 'Unknown network' message and has
\* written nothing: no file, no directory, no registry record, no process.
C4_UnknownNetworkNoWrites ==
    [][(/\ cli.pc = "generate"
        /\ cli'.pc # "generate"
        /\ cli.config.value.network \notin DOMAIN NETWORK_PRESETS)
         => /\ cli'.pc = "done"
            /\ "Unknown network" \in Shown(cli')
            /\ cli'.trace = <<>>
            /\ UNCHANGED <<sessionsFile, sessionDirs, procCwd, timers>>
      ]_allVars

\* C8: when startMonitor returns a SessionInfo, a process was spawned with
\* the session directory as its working directory, and the registry holds
\* a record with the returned id, the tool name, the session directory as
\* configPath, the spawned process's id and status 'running'.
C8_StartMonitorRecord ==
    [][(cli.pc # "report" /\ cli'.pc = "report" /\ ~cli'.result.isNull)
         => LET r == cli'.result.value
                after == loadSessions(sessionsFile')
            IN  /\ r.id = cli.id
                /\ cli.pid \in Pids
                /\ procCwd'[cli.pid] = SessionDirOf(cli.id)
                /\ sessionDirs'[cli.id].exists
                /\ \E i \in 1..Len(after) :
                      /\ after[i].id = r.id
                      /\ after[i].tool = TOOL_NAME
                      /\ after[i].configPath = SessionDirOf(cli.id)
                      /\ "pid" \in DOMAIN after[i]
                      /\ after[i].pid = cli.pid
                      /\ after[i].status = "running"
      ]_allVars

\* C8 witness: startMonitor has returned a SessionInfo whose id an older
\* record of the registry already carries.
C8_Witness ==
    /\ cli.cmd = "whale-alert"
    /\ cli.pc = "report"
    /\ ~cli.result.isNull
    /\ Len(loadSessions(sessionsFile)) = 2
    /\ loadSessions(sessionsFile)[1].id = cli.result.value.id

\* C9: stopMonitor sends the kill, then writes status 'stopped', then
\* deletes the session directory, then removes the record, each effect
\* happening in its own step and in that order; it returns true only once
\* the record is removed.
C9_StopOrder ==
    [][cli'.cmd = "stop"
         => LET n == Len(cli.trace)
                m == Len(cli'.trace)
                grew == cli.cmd = "stop" /\ m = n + 1
            IN  /\ m <= Len(StopOrder)
                /\ cli'.trace = SubSeq(StopOrder, 1, m)
                /\ (grew /\ m = 1) => cli.session.value.pid \notin alive'
                /\ (grew /\ m = 2) =>
                      /\ FindSession(loadSessions(sessionsFile'), cli.id) # 0
                      /\ FoundIn(sessionsFile', cli.id).status = "stopped"
                /\ (grew /\ m = 3) => ~sessionDirs'[cli.id].exists
                /\ (grew /\ m = 4) =>
                      FindSession(loadSessions(sessionsFile'), cli.id) = 0
                /\ (sessionDirs' # sessionDirs) => (grew /\ m = 3)
                /\ (Len(loadSessions(sessionsFile')) # Len(loadSessions(sessionsFile)))
                      => (grew /\ m = 4)
                /\ (cli'.result = Some(TRUE)) =>
                      /\ cli'.trace = StopOrder
                      /\ FindSession(loadSessions(sessionsFile'), cli'.id) = 0
      ]_allVars

\* C9 witness: stopMonitor has returned true after killing a live process,
\* and another session's record is still in the registry.
C9_Witness ==
    /\ cli.cmd = "stop"
    /\ cli.pc = "stopReport"
    /\ ~cli.killFailed
    /\ cli.result = Some(TRUE)
    /\ cli.trace = StopOrder
    /\ Len(loadSessions(sessionsFile)) = 1

\* The messages downloadBinary ends with when it returns false.
DownloadFailures == {DownloadMessage(o) : o \in DownloadOutcomes \ {"installed"}}

\* C11: when the binary is absent and downloadBinary fails, whatever the
\* step that failed, startMonitor returns null at once: the download is not
\* tried again, no process is spawned and no record is added, in that step
\* and in the rest of the run.
C11_DownloadFailure ==
    [][/\ (cli.pc = "startMonitor" /\ cli' # cli /\ ~binary /\ ~binary')
            => /\ cli'.pc = "report"
               /\ cli'.result = Null
               /\ Shown(cli') \cap DownloadFailures # {}
               /\ UNCHANGED <<sessionsFile, alive, procCwd, procStart, timers>>
       /\ (/\ cli.pc = "report"
           /\ cli' # cli
           /\ Shown(cli) \cap DownloadFailures # {})
            => /\ cli'.pc = "done"
               /\ cli'.trace = cli.trace
               /\ "spawn" \notin {cli.trace[i] : i \in 1..Len(cli.trace)}
               /\ "addSession" \notin {cli.trace[i] : i \in 1..Len(cli.trace)}
               /\ UNCHANGED <<sessionsFile, alive, procCwd, procStart, timers, binary>>
      ]_allVars

\* C11 witness: startMonitor has returned null because the release had no
\* asset for the platform; the binary is still absent.
C11_Witness ==
    /\ cli.cmd = "whale-alert"
    /\ cli.pc = "report"
    /\ cli.result = Null
    /\ ~binary
    /\ "Binary not found for your platform" \in Shown(cli)
    /\ sessionDirs[cli.id].exists

\* The failures a handler catches and only reports.
ReportedFailures ==
    {"Unknown network", "Failed to generate configuration", "Failed to start monitor",
     "Failed to stop", "Session not found: id", "Operation cancelled."}

\* C13: a finished invocation has exit code 1 exactly when an error left its
\* command handler, and 0 otherwise; a run that reported a caught failure
\* (unknown network, failed start, failed stop, session not found, user
\* cancellation) has exit code 0.
C13_ExitCodes ==
    cli.pc = "exited" =>
        /\ cli.exit \in {0, 1}
        /\ (cli.exit = 1) <=> cli.threw
        /\ (cli.exit = 1) <=> ("Error" \in Shown(cli))
        /\ (Shown(cli) \cap ReportedFailures # {}) => cli.exit = 0

\* C13 witness: a stop command has exited with 1 because reading the
\* registry threw, after an earlier run had written it.
C13_Witness ==
    /\ cli.pc = "exited"
    /\ cli.cmd = "stop"
    /\ cli.exit = 1
    /\ Len(loadSessions(sessionsFile)) >= 1

\* Whether the process a record was written for is running: its pid is
\* alive and was last given out at the record's start time.
RecordedProcessRuns(r) ==
    /\ "pid" \in DOMAIN r
    /\ r.pid \in alive
    /\ procStart[r.pid] = Instant(r.startedAt)

\* The number of records of the given id.
CountOf(sessions, id) == Cardinality({i \in 1..Len(sessions) : sessions[i].id = id})

\* C15 (as stated): a successful start schedules exactly one delayed check
\* for its session, and a check that runs while the session's record is in
\* the registry and the recorded process has exited leaves the record with
\* status 'error'.
C15_DelayedCheckMarksError ==
    [][/\ (cli.pc = "addSession" /\ cli'.pc = "report")
            => timers' = [timers EXCEPT ![cli.id] = @ + 1]
       /\ \A id \in SessionIds :
            (/\ timers'[id] = timers[id] - 1
             /\ CountOf(loadSessions(sessionsFile), id) = 1
             /\ ~RecordedProcessRuns(FoundIn(sessionsFile, id)))
              => FoundIn(sessionsFile', id).status = "error"
      ]_allVars

(**************************************************************************)
(* Cancellation                                                           *)
(**************************************************************************)

\* The step in which a prompt is answered with a cancellation.
CancelStep ==
    /\ cli.cmd = "whale-alert"
    /\ cli.pc \in {"confirmSaved", "wizard", "overrides"}
    /\ Len(cli'.reported) = Len(cli.reported) + 1
    /\ cli'.reported[Len(cli'.reported)] = "Operation cancelled."

\* C16: when a wizard or confirmation prompt is cancelled the process ends
\* in that very step with exit code 0: nothing is saved, created, spawned or
\* recorded by the step, the command logs no further effect, and the only
\* thing that can follow is a new invocation that starts from scratch.
C16_CancelTerminates ==
    [][/\ CancelStep
            => /\ cli'.pc = "exited"
               /\ cli'.exit = 0
               /\ cli'.trace = cli.trace
               /\ cli.pc = "wizard" => cli'.trace = <<>>
               /\ UNCHANGED <<sessionsFile, configFiles, baseDirs, alive, binary,
                              sessionDirs, procCwd, procStart, timers>>
       /\ (/\ cli.pc = "exited"
           /\ "Operation cancelled." \in Shown(cli)
           /\ cli' # cli)
            => /\ cli'.pc \in {"loadConfig", "stopCommand", "listCommand"}
               /\ cli'.reported = <<>>
               /\ cli'.trace = <<>>
      ]_allVars

\* Reached: with no configuration saved the run went straight to the
\* wizard, which was cancelled; the process has exited with 0 and there is
\* still no configuration saved.
C16_Witness ==
    /\ cli.pc = "exited"
    /\ cli.cmd = "whale-alert"
    /\ cli.exit = 0
    /\ cli.reported = <<"Operation cancelled.">>
    /\ cli.trace = <<>>
    /\ loadUserConfig(configFiles, TOOL_NAME).isNull


(**************************************************************************)
(* Session lifecycle                                                      *)
(**************************************************************************)

Effects(c) == {c.trace[i] : i \in 1..Len(c.trace)}

\* The last message the command has shown is m.
LastShown(c, m) == Len(c.reported) > 0 /\ c.reported[Len(c.reported)] = m

\* C19: when the network names a preset, or a name that is looked up to a
\* value without a slug, and one of the three loadTemplate calls raises, the
\* whale-alert command reports 'Failed to generate configuration' without
\* throwing, and the step creates no session directory, writes no document,
\* spawns no process and adds no record; the process then exits with 0,
\* again changing nothing.
C19_TemplateFailure ==
    [][/\ (/\ cli.pc = "generate"
           /\ cli' # cli
           /\ NetworkPresetLookup(cli.config.value.network).kind # "undefined"
           /\ cli'.pc # "createSessionDir")
            => /\ cli'.pc = "done"
               /\ LastShown(cli', "Failed to generate configuration")
               /\ ~cli'.threw
               /\ cli'.trace = cli.trace
               /\ cli'.id = ""
               /\ Effects(cli') \subseteq {"saveUserConfig"}
               /\ UNCHANGED <<sessionsFile, configFiles, alive, binary, sessionDirs,
                              procCwd, procStart, timers>>
       /\ (/\ cli.cmd = "whale-alert"
           /\ cli.pc = "done"
           /\ cli' # cli
           /\ LastShown(cli, "Failed to generate configuration")
           /\ cli.id = "")
            => /\ cli'.pc = "exited"
               /\ cli'.exit = 0
               /\ cli'.trace = cli.trace
               /\ UNCHANGED <<sessionsFile, configFiles, alive, binary, sessionDirs,
                              procCwd, procStart, timers>>
      ]_allVars

\* Reached: a run for stellar_testnet whose templates did not all load has
\* returned; it made no directory, and the one session of an earlier run is
\* all the registry holds.
C19_Witness ==
    /\ cli.cmd = "whale-alert"
    /\ cli.pc = "done"
    /\ ~cli.threw
    /\ LastShown(cli, "Failed to generate configuration")
    /\ cli.id = ""
    /\ ~cli.config.isNull
    /\ cli.config.value.network = "stellar_testnet"
    /\ Len(loadSessions(sessionsFile)) = 1
    /\ Cardinality({i \in SessionIds : sessionDirs[i].exists}) = 1


\* The effects of a whale-alert run, in the order of the code.
WaOrder ==
    <<"saveUserConfig", "loadTemplate", "createSessionDir", "writeOZConfigs",
      "downloadBinary", "spawn", "addSession">>

\* Where an effect stands in WaOrder.
Position(e) == CHOOSE i \in 1..Len(WaOrder) : WaOrder[i] = e

\* The effect this step logs, if it logs one.
Logs(e) == cli'.trace = Append(cli.trace, e)

\* C18: the effects of a whale-alert run follow one another in the order
\* config saved, documents rendered, session directory created, documents
\* written, (binary installed,) process spawned, record added, none twice
\* and none without the ones it needs; and each happens on top of what the
\* earlier ones left: the directory is created for rendered documents, the
\* process is spawned in a directory that holds the three documents, and the
\* record is added for a process that was spawned in that directory.
C18_StepOrder ==
    [][cli'.cmd = "whale-alert"
         => /\ \A i, j \in 1..Len(cli'.trace) :
                  i < j => Position(cli'.trace[i]) < Position(cli'.trace[j])
            /\ "addSession" \in Effects(cli') => "spawn" \in Effects(cli')
            /\ "spawn" \in Effects(cli') => "writeOZConfigs" \in Effects(cli')
            /\ "writeOZConfigs" \in Effects(cli') => "createSessionDir" \in Effects(cli')
            /\ "createSessionDir" \in Effects(cli') => "loadTemplate" \in Effects(cli')
            /\ Logs("saveUserConfig")
                 => /\ cli.trace = <<>>
                    /\ ~loadUserConfig(configFiles', TOOL_NAME).isNull
            /\ Logs("createSessionDir")
                 => /\ DOMAIN cli.docs = Written(Len(DocumentKinds))
                    /\ sessionDirs'[cli'.id].exists
            /\ Logs("writeOZConfigs")
                 => /\ sessionDirs[cli.id].exists
                    /\ sessionDirs'[cli.id].docs = Written(Len(DocumentKinds))
            /\ Logs("spawn")
                 => /\ sessionDirs[cli.id].exists
                    /\ sessionDirs[cli.id].docs = Written(Len(DocumentKinds))
                    /\ binary
                    /\ cli'.pid \in alive' \ alive
                    /\ procCwd'[cli'.pid] = SessionDirOf(cli.id)
                    /\ UNCHANGED sessionsFile
            /\ Logs("addSession")
                 => /\ sessionDirs[cli.id].exists
                    /\ sessionDirs[cli.id].docs = Written(Len(DocumentKinds))
                    /\ procCwd[cli.pid] = SessionDirOf(cli.id)
                    /\ procStart[cli.pid] = now
                    /\ Len(loadSessions(sessionsFile')) = Len(loadSessions(sessionsFile)) + 1
      ]_allVars

\* Reached: a first run that went through the wizard and installed the
\* binary has added its record; every effect was logged, in order.
C18_Witness ==
    /\ cli.cmd = "whale-alert"
    /\ cli.pc = "report"
    /\ cli.trace = WaOrder
    /\ Len(loadSessions(sessionsFile)) = 1
    /\ loadSessions(sessionsFile)[1].id = cli.id
    /\ sessionDirs[cli.id].docs = Written(Len(DocumentKinds))


\* A whale-alert run that created its session directory has ended without
\* a monitor: writeOZConfigs raised, or startMonitor returned null.
FailedAfterCreate(c) ==
    /\ c.cmd = "whale-alert"
    /\ c.pc \in {"done", "exited"}
    /\ "createSessionDir" \in Effects(c)
    /\ \/ LastShown(c, "Failed to generate configuration")
       \/ LastShown(c, "Failed to start monitor")

\* The records of the registry whose configPath is the directory.
RecordsOf(dir) ==
    LET sessions == loadSessions(sessionsFile)
    IN  {i \in 1..Len(sessions) : sessions[i].configPath = dir}

\* C20 (as stated): after a whale-alert run that failed once its session
\* directory was created, the directory is still on disk and no record of
\* the registry refers to it.
C20_NoRollback ==
    FailedAfterCreate(cli)
      => /\ sessionDirs[cli.id].exists
         /\ RecordsOf(SessionDirOf(cli.id)) = {}


(**************************************************************************)
(* Two invocations at once: properties                                    *)
(**************************************************************************)

\* The id of terminal p's command has no record in the registry file.
Unknown(p) == FindSession(loadSessions(sessionsFile), race[p].id) = 0

\* C12: a stop whose (non-empty) id has no record when stopCommand looks
\* it up reports 'Session not found: <id>' and ends; one whose id has no
\* record when stopMonitor looks it up reports 'Session not found',
\* stopMonitor returns false and stopCommand reports the failure. None of
\* these steps sends a signal, deletes a directory or writes the registry,
\* and the command has no effect at all.
C12_UnknownSession ==
    [][\A p \in Procs :
          /\ (/\ race[p].pc = "stopCommand"
               /\ race'[p] # race[p]
               /\ race[p].id # ""
               /\ Unknown(p))
                => /\ race'[p].pc = "end"
                   /\ LastShown(race'[p], "Session not found: id")
                   /\ race'[p].trace = <<>>
                   /\ UNCHANGED <<sessionsFile, alive, sessionDirs>>
          /\ (/\ race[p].pc = "stopMonitor"
               /\ race'[p] # race[p]
               /\ Unknown(p))
                => /\ race'[p].pc = "stopReport"
                   /\ LastShown(race'[p], "Session not found")
                   /\ race'[p].result = Some(FALSE)
                   /\ race'[p].trace = <<>>
                   /\ UNCHANGED <<sessionsFile, alive, sessionDirs>>
          /\ (/\ race[p].pc = "stopReport"
               /\ race'[p] # race[p]
               /\ race[p].result = Some(FALSE))
                => /\ race'[p].pc = "end"
                   /\ LastShown(race'[p], "Failed to stop")
                   /\ race'[p].trace = <<>>
                   /\ UNCHANGED <<sessionsFile, alive, sessionDirs>>
      ]_allVars

\* Reached: two stops of one session; one stopped it, the other found the
\* record in stopCommand, no longer in stopMonitor, and got false.
C12_Witness ==
    \E p, q \in Procs :
        /\ race[p].cmd = "stop" /\ race[q].cmd = "stop"
        /\ race[p].id = race[q].id
        /\ race[p].pc = "end" /\ race[q].pc = "end"
        /\ race[p].result = Some(TRUE)
        /\ race[q].result = Some(FALSE)
        /\ race[q].reported = <<"Session not found", "Failed to stop">>
        /\ race[q].trace = <<>>

\* C14: addSession, updateSessionStatus and removeSession write the list
\* their own loadSessions returned, changed by their own update, whatever
\* the file holds by then: records another invocation wrote in between are
\* gone after the write, and records it removed are back.
C14_LastWriterWins ==
    [][\A p \in Procs :
          LET read == loadSessions(race[p].read)
              new == loadSessions(sessionsFile')
              i == FindSession(read, race[p].id)
              Others(r) == r.id # race[p].id
          IN  /\ (race[p].pc = "addSessionSave" /\ race'[p] # race[p])
                   => /\ Len(new) = Len(read) + 1
                      /\ SubSeq(new, 1, Len(read)) = read
                      /\ new[Len(new)].id = race[p].id
                      /\ new[Len(new)].pid = race[p].pid
              /\ (race[p].pc = "updateSave" /\ race'[p] # race[p])
                   => IF i = 0 THEN UNCHANGED sessionsFile
                      ELSE new = [read EXCEPT ![i].status = race[p].status]
              /\ (race[p].pc = "removeSave" /\ race'[p] # race[p])
                   => new = SelectSeq(read, Others)
      ]_allVars

\* Reached: two whale-alert runs with different ids have both saved their
\* record, and the registry holds one record only.
C14_Witness ==
    \E p, q \in Procs :
        /\ race[p].cmd = "whale-alert" /\ race[q].cmd = "whale-alert"
        /\ race[p].id # race[q].id
        /\ "addSession" \in Effects(race[p])
        /\ "addSession" \in Effects(race[q])
        /\ Len(loadSessions(sessionsFile)) = 1
        /\ loadSessions(sessionsFile)[1].id = race[q].id


(**************************************************************************)
(* whaleAlertWizard: properties                                           *)
(**************************************************************************)

\* C21: when the wizard has returned, it went through exactly one follow-up
\* branch, that of the selected channel, and the webhookUrl it returns is a
\* text starting with https://discord.com/api/webhooks/ for discord, a text
\* starting with https://hooks.slack.com/ for slack, and for telegram the
\* JSON text of an object whose token and chatId are not empty.
C21_CredentialShape ==
    wiz.pc = "returned"
      => /\ wiz.branches = <<wiz.notificationType>>
         /\ wiz.notificationType = "discord"
              => StartsWith(wiz.webhookUrl, DISCORD_PREFIX)
         /\ wiz.notificationType = "slack"
              => StartsWith(wiz.webhookUrl, SLACK_PREFIX)
         /\ wiz.notificationType = "telegram"
              => \E token \in TypedTexts, chatId \in TypedTexts :
                    /\ token # <<>>
                    /\ chatId # <<>>
                    /\ wiz.webhookUrl = TelegramJSON(token, chatId)
         /\ wiz.notificationType # "telegram" => wiz.token = <<>>

\* Reached: the wizard returned for telegram with a token that holds a
\* quote, which the JSON text escapes.
C21_Witness ==
    /\ wiz.pc = "returned"
    /\ wiz.notificationType = "telegram"
    /\ wiz.token = <<"a", "\"">>
    /\ wiz.webhookUrl = TelegramJSON(<<"a", "\"">>, <<"-", "1", "0", "0">>)


(**************************************************************************)
(* Two invocations at once: a removed record                              *)
(**************************************************************************)

\* Terminal p's stop has removed its session's record: stopMonitor has
\* returned true and the registry holds no record of the id.
Removed(p) ==
    /\ race[p].cmd = "stop"
    /\ race[p].result = Some(TRUE)
    /\ CountOf(loadSessions(sessionsFile), race[p].id) = 0

\* This step is a whale-alert run saving its own new record under the id.
AddsAnew(id) ==
    \E q \in Procs :
        /\ race[q].pc = "addSessionSave"
        /\ race'[q].pc # "addSessionSave"
        /\ race[q].id = id

\* C22 (as stated): once stopMonitor has removed the record of a session
\* and returned true, no step other than a new start under the same id puts
\* a record with that id into the registry again.
C22_RemovedStaysRemoved ==
    [][\A p \in Procs :
          (Removed(p) /\ ~AddsAnew(race[p].id))
            => CountOf(loadSessions(sessionsFile'), race[p].id) = 0
      ]_allVars

\* The record a stop removed is back, written by the delayed check of the
\* run that started the session, with status "error".
C22_CheckRecreates ==
    \E p, q \in Procs :
        /\ race[p].cmd = "stop" /\ race[p].pc = "end" /\ race[p].result = Some(TRUE)
        /\ race[q].cmd = "whale-alert" /\ race[q].pc = "end"
        /\ race[q].id = race[p].id
        /\ "updateSessionStatus" \in Effects(race[q])
        /\ CountOf(loadSessions(sessionsFile), race[p].id) = 1
        /\ FoundIn(sessionsFile, race[p].id).status = "error"
        /\ ~sessionDirs[race[p].id].exists


(**************************************************************************)
(* Session ids, overrides, the wizard's turn, a declined start            *)
(**************************************************************************)

\* C23 (as stated): no two records of the registry carry the same id.
C23_UniqueIds ==
    LET sessions == loadSessions(sessionsFile)
    IN  \A i, j \in 1..Len(sessions) : i # j => sessions[i].id # sessions[j].id


\* The config saved for whale-alert, as loadUserConfig returns it.
Saved == loadUserConfig(configFiles, TOOL_NAME)

\* A run was given none of --network, --threshold, --contract.
NoOverrides(c) == c.opts.network = "" /\ c.opts.threshold = "" /\ c.opts.contract = ""

\* C24: the step that applies --network, --threshold and --contract leaves
\* the config file as it is and gives the run the overridden values; the
\* config file only ever holds values a wizard returned; and a run without
\* overrides generates from exactly what the file holds (as JSON: a
\* contractName of undefined is no key of the file).
C24_OverridesStayLocal ==
    [][/\ (cli.pc = "overrides" /\ cli' # cli)
            => /\ UNCHANGED configFiles
               /\ cli'.pc = "generate"
                    => cli'.config.value = ApplyOverrides(cli.config.value, cli.opts)
       /\ ~Saved'.isNull
            => \E c \in WizardConfigs :
                  /\ Saved'.value.network = c.network
                  /\ Saved'.value.threshold = c.threshold
                  /\ Saved'.value.contractAddress = c.contractAddress
       /\ (cli'.pc = "generate" /\ NoOverrides(cli'))
            => ConfigToJSON(cli'.config.value) = Saved'.value
      ]_allVars

\* Reached: a run with --threshold and --contract that accepted the saved
\* config is about to generate from the overridden values, and the file
\* still holds the saved ones.
C24_Witness ==
    /\ cli.cmd = "whale-alert"
    /\ cli.pc = "generate"
    /\ cli.trace = <<>>
    /\ cli.opts.threshold = "5000"
    /\ cli.config.value.threshold = "5000"
    /\ cli.config.value.contractAddress = "CDLZFC3S"
    /\ ~Saved.isNull
    /\ Saved.value.threshold = "1000000"
    /\ Saved.value.contractAddress = "CCW67TSZ"


\* C25: in a whale-alert run whose loadUserConfig returned, the wizard is
\* entered exactly when there is no saved config, or --reconfigure is given,
\* or the saved config was declined; the question about the saved config is
\* never asked with --reconfigure; the config file is written by the step in
\* which the wizard returns, with the wizard's result, and by no other step,
\* so a run that accepted the saved config leaves the file as it was.
C25_WizardTurn ==
    [][cli.cmd = "whale-alert" =>
         /\ (cli.pc = "loadConfig" /\ cli' # cli)
               => \/ cli'.threw /\ ~Saved.isNull
                  \/ /\ ~cli'.threw
                     /\ cli'.pc = IF Saved.isNull \/ cli.opts.reconfigure
                                  THEN "wizard" ELSE "confirmSaved"
         /\ cli'.pc = "confirmSaved" => ~cli'.opts.reconfigure /\ ~Saved'.isNull
         /\ (cli.pc = "confirmSaved" /\ cli' # cli)
               => \/ cli'.pc = "wizard" /\ cli'.config = Null
                  \/ cli'.pc = "overrides" /\ cli'.config = Saved
                  \/ cli' = Cancelled(cli)
         /\ (cli'.pc = "wizard" /\ cli.pc # "wizard")
               => cli.pc \in {"loadConfig", "confirmSaved"}
         /\ (cli.pc = "wizard" /\ cli'.pc = "overrides")
               => /\ Saved' = Some(ConfigToJSON(cli'.config.value))
                  /\ cli'.trace = cli.trace \o <<"saveUserConfig">>
         /\ ~(cli.pc = "wizard" /\ cli'.pc = "overrides") => UNCHANGED configFiles
      ]_allVars

\* Reached: a run with --reconfigure, made after an earlier run had saved a
\* config and started a session, has been through the wizard and has
\* rewritten the file without the question being asked.
C25_Witness ==
    /\ cli.cmd = "whale-alert"
    /\ cli.pc = "overrides"
    /\ cli.opts.reconfigure
    /\ cli.trace = <<"saveUserConfig">>
    /\ cli.reported = <<"Configuration saved!">>
    /\ Len(loadSessions(sessionsFile)) >= 1
    /\ Saved = Some(ConfigToJSON(cli.config.value))


\* C26: a whale-alert run whose start confirmation was answered with no has
\* shown "Monitor not started" and is over: it has rendered no template,
\* created no session directory, spawned no process and written no registry
\* record, neither in that step nor in any later step of the command, and a
\* config the wizard saved earlier in the run is still what the file holds.
C26_DeclinedStart ==
    [][/\ (cli'.cmd = "whale-alert" /\ "Monitor not started" \in Shown(cli'))
            => /\ cli'.pc \in {"done", "exited"}
               /\ Effects(cli') \subseteq {"saveUserConfig"}
       /\ (cli.pc = "overrides" /\ "Monitor not started" \in Shown(cli'))
            => /\ cli'.pc = "done"
               /\ cli'.trace = cli.trace
               /\ ~cli'.threw
               /\ "saveUserConfig" \in Effects(cli)
                     => Saved' = Some(ConfigToJSON(cli.config.value))
       /\ (cli.cmd = "whale-alert" /\ "Monitor not started" \in Shown(cli') /\ cli' # cli)
            => UNCHANGED <<sessionsFile, sessionDirs, alive, procCwd, procStart,
                           timers, configFiles>>
      ]_allVars

\* Reached: the wizard ran and saved, the start was declined, and the
\* command is over with the saved config in the file and nothing else done.
C26_Witness ==
    /\ cli.cmd = "whale-alert"
    /\ cli.pc = "done"
    /\ cli.reported = <<"Configuration saved!", "Monitor not started">>
    /\ cli.trace = <<"saveUserConfig">>
    /\ ~Saved.isNull
    /\ loadSessions(sessionsFile) = <<>>
    /\ \A i \in SessionIds : ~sessionDirs[i].exists
    /\ alive = {}


(**************************************************************************)
(* The list, the delayed check, start then stop, updateSessionStatus      *)
(**************************************************************************)

CheckRuns(id) == timers'[id] = timers[id] - 1

\* C28 (as stated): a delayed check leaves the number and the order of the
\* records as they are, changes no record of another id, and changes no
\* record of its id whose recorded process is alive: such a record keeps
\* status 'running', and a registry whose records of that id are all alive
\* is not changed at all.
C28_CheckSparesLive ==
    [][\A id \in SessionIds :
          CheckRuns(id) =>
             LET sessions == loadSessions(sessionsFile)
                 after == loadSessions(sessionsFile')
             IN  /\ Len(after) = Len(sessions)
                 /\ \A i \in 1..Len(sessions) :
                       \/ sessions[i].id = id /\ ~RecordedProcessRuns(sessions[i])
                       \/ after[i] = sessions[i]
      ]_allVars


\* The stop of the session started last ends: the record at the end of the
\* registry, which addSession appended, has the id being stopped, and
\* removeSession is the step taken.
StopsLastStarted ==
    LET sessions == loadSessions(sessionsFile)
    IN  /\ cli.cmd = "stop"
        /\ cli.pc = "removeSession"
        /\ cli'.pc = "stopReport"
        /\ Len(sessions) >= 1
        /\ sessions[Len(sessions)].id = cli.id

\* C29 (as stated): when the session started last is stopped, the registry
\* afterwards holds what it held before that start, which is the records in
\* front of the one the start appended, and the id has no session
\* directory.
C29_StartThenStop ==
    [][StopsLastStarted =>
         LET sessions == loadSessions(sessionsFile)
         IN  /\ cli'.result = Some(TRUE)
             /\ loadSessions(sessionsFile') = SubSeq(sessions, 1, Len(sessions) - 1)
             /\ ~sessionDirs'[cli.id].exists
      ]_allVars


\* The fields of a record other than those updateSessionStatus may set.
OtherFields(r) == DOMAIN r \ {"status", "pid", "containerId"}

\* C30: after updateSessionStatus(id, status, extra) the registry has as
\* many records as before, in the same order; every record but the first of
\* that id is as it was; that first record has the new status, the pid of
\* extra when one is supplied and its old pid otherwise, and its other
\* fields as before; and when no record has the id the file is the file as
\* it was, not written and not created.
C30_UpdateFirstOnly ==
    hop.name = "updateSessionStatus" =>
        LET before == hop.before
            after == loadSessions(sessionsFile)
            i == FindSession(before, hop.id)
        IN  IF i = 0
            THEN sessionsFile = hop.fileBefore
            ELSE /\ sessionsFile.exists
                 /\ Len(after) = Len(before)
                 /\ \A j \in 1..Len(before) : j # i => after[j] = before[j]
                 /\ after[i].status = hop.status
                 /\ OtherFields(after[i]) = OtherFields(before[i])
                 /\ \A k \in OtherFields(before[i]) : after[i][k] = before[i][k]
                 /\ "containerId" \in DOMAIN after[i] <=> "containerId" \in DOMAIN before[i]
                 /\ IF "pid" \in DOMAIN hop.extra
                    THEN after[i].pid = hop.extra.pid
                    ELSE /\ "pid" \in DOMAIN after[i] <=> "pid" \in DOMAIN before[i]
                         /\ "pid" \in DOMAIN before[i] => after[i].pid = before[i].pid

\* Reached: two records of one id, both 'running'; the call set the first
\* to 'error' and the second is still 'running'.
C30_Witness ==
    /\ hop.name = "updateSessionStatus"
    /\ hop.status = "error"
    /\ Len(hop.before) = 2
    /\ hop.before[1].id = hop.id
    /\ hop.before[2].id = hop.id
    /\ hop.before[1].status = "running"
    /\ loadSessions(sessionsFile)[1].status = "error"
    /\ loadSessions(sessionsFile)[2].status = "running"

\* Reached: the call named an id without a record before any registry file
\* was written, and there is still no file.
C30_NoRecordNoWrite ==
    /\ hop.name = "updateSessionStatus"
    /\ FindSession(hop.before, hop.id) = 0
    /\ ~hop.fileBefore.exists
    /\ ~sessionsFile.exists


=============================================================================
